---- MODULE Spec2Model ----
(***************************************************************************)
(* Quarterly Fundamentals Evaluation Pipeline of tradeInformationGatherer. *)
(*                                                                         *)
(* Numbers are exact rationals in lowest terms.  A nullable number is a    *)
(* tuple: <<>> is JavaScript null, <<v>> the integer v, <<n, d>> the       *)
(* rational n/d with d > 1, and <<s, 0, 0>> a non-finite value (Infinity   *)
(* for s = 1, -Infinity for s = -1, NaN for s = 0).  A field missing from  *)
(* a record (JavaScript undefined) is a key not in the record's DOMAIN.    *)
(***************************************************************************)
EXTENDS Integers, Sequences, FiniteSets, TLC

VARIABLES
    inputRows,   \* macro_eval: the array handed to computeQuarterlyGrowth
    smooth,      \* macro_eval: the smooth flag of computeQuarterlyGrowth
    sortedRows,  \* macro_eval: rows, the sorted clone inside computeQuarterlyGrowth
    growthOut,   \* macro_eval: the array computeQuarterlyGrowth returns
    gpc,         \* "input" before the call, "done" after it
    perfRows,    \* result_eval: the array handed to addPerformanceToRows
    perfOut,     \* result_eval: what addPerformanceToRows returns
    ppc,         \* "input" before the call, "done" after it, "threw" if it raised
    outJson,     \* past_result_price_eval: the array parsePastStockPrice mutates
    market,      \* the price collaborator: what getPriceAt answers for a date
    closeCache,  \* past_result_price_eval: closeCache
    item,        \* parsePastStockPrice: index of the item of the for loop
    pricePc,     \* parsePastStockPrice: "item", "lookup", "search", "finish", "done"
    lookup,      \* the getCachedNearestClose call under way
    currClose,   \* parsePastStockPrice: currClose of the item
    pastClose,   \* parsePastStockPrice: pastClose of the item
    lookupLog,   \* history: the getCachedNearestClose calls made and their results
    callLog,     \* history: the getPriceAt calls made and whether they resolved
    request,     \* runPipeline: { from, to } as <<year, q>> pairs
    cursor,      \* enumerateQuarters: <<y, q>> of the next quarter
    results,     \* fetchBseQuarterRange: results
    companyInfo, \* what runPipeline finds about the company: symbol, events, shares
    stage,       \* runPipeline: the stage about to run
    stageLog,    \* history: the stages run so far, in order
    dateRows,    \* parsePastResult: outJson as it is handed in
    dateEvents,  \* parsePastResult: companyInfoJson.pastEvents.events
    datedOut,    \* parsePastResult: outJson after the call
    dpc,         \* parsePastResult: "idle", "input" or "done"
    fnCall,      \* result_eval: a direct call of a scoring function, name and argument
    fnResult,    \* result_eval: what the call returned or raised
    fpc,         \* "idle", "input" before the call, "done" after it
    poolDriver,  \* the bulk driver that runs: "runPool", "runBatch" or "mapPool"
    poolOutcome, \* per item, how its task ends once its retries are spent
    poolLimit,   \* the concurrency limit of the run
    poolIdx,     \* idx / index: the number of items taken so far
    poolActive,  \* active: the driver's count of tasks in flight
    poolTask,    \* per item: "waiting", "running", "recorded" or "finished"
    poolResults, \* per item: "none", or the "ok" / "failed" recorded for it
    poolPromise, \* the promise of the run: "pending", "resolved", "rejected", "exited"
    poolPc,      \* "idle", "init" before the driver is called, "started" after
    retryWrapper, \* the retry wrapper called: "withRetries" or "withRetry"
    retryLimit,  \* retries
    retryOutcome, \* per attempt, whether fn() would succeed or fail
    retryI,      \* i of the for loop
    retryCalls,  \* history: the attempts made, in order
    retryWaits,  \* history: the delays waited, in order, in milliseconds
    retryResult, \* what the wrapper returned or threw
    retryPc,     \* "idle", "call", "wait", "returned" or "threw"
    seenFile,    \* getLatestNseLatestFiling: the keys in seen_nse_integrated.json
    nsePage,     \* the keys of the rows the NSE page lists
    cycles,      \* the observer's cycles started so far, each with its position
    handed       \* history: per filing key, how often onNew was called with it

growthVars == <<inputRows, smooth, sortedRows, growthOut, gpc>>
perfVars == <<perfRows, perfOut, ppc>>
priceVars == <<outJson, market, closeCache, item, pricePc, lookup, currClose,
               pastClose, lookupLog, callLog>>

pipeVars == <<request, cursor, results, companyInfo, stage, stageLog>>

dateVars == <<dateRows, dateEvents, datedOut, dpc>>

fnVars == <<fnCall, fnResult, fpc>>

poolVars == <<poolDriver, poolOutcome, poolLimit, poolIdx, poolActive, poolTask,
              poolResults, poolPromise, poolPc>>

retryVars == <<retryWrapper, retryLimit, retryOutcome, retryI, retryCalls, retryWaits,
               retryResult, retryPc>>

observerVars == <<seenFile, nsePage, cycles, handed>>

bulkVars == <<poolVars, retryVars, observerVars>>

vars == <<growthVars, perfVars, priceVars, pipeVars, dateVars, fnVars, bulkVars>>

----------------------------------------------------------------------------
(* Values *)

Null == <<>>

IsNull(v) == v = <<>>

Abs(x) == IF x < 0 THEN -x ELSE x

RECURSIVE GCD(_, _)
GCD(a, b) == IF b = 0 THEN a ELSE GCD(b, a % b)

\* the number n/d (d # 0) in lowest terms
Rat(n, d) ==
    LET g == GCD(Abs(n), Abs(d))
        nn == (IF d < 0 THEN -n ELSE n) \div g
        dd == Abs(d) \div g
    IN  IF dd = 1 THEN <<nn>> ELSE <<nn, dd>>

PosInfinity == <<1, 0, 0>>
NegInfinity == <<-1, 0, 0>>
NaN == <<0, 0, 0>>

\* Number.isFinite of a non-null number
IsFinite(v) == Len(v) <= 2

Nm(v) == v[1]
Dn(v) == IF Len(v) = 2 THEN v[2] ELSE 1

\* arithmetic and comparison of finite numbers
LCM(a, b) == (a \div GCD(a, b)) * b
RAdd(a, b) ==
    LET l == LCM(Dn(a), Dn(b))
    IN  Rat(Nm(a) * (l \div Dn(a)) + Nm(b) * (l \div Dn(b)), l)
RSub(a, b) ==
    LET l == LCM(Dn(a), Dn(b))
    IN  Rat(Nm(a) * (l \div Dn(a)) - Nm(b) * (l \div Dn(b)), l)
RMul(a, b) ==
    LET g1 == GCD(Abs(Nm(a)), Dn(b))
        g2 == GCD(Abs(Nm(b)), Dn(a))
    IN  Rat((Nm(a) \div g1) * (Nm(b) \div g2), (Dn(a) \div g2) * (Dn(b) \div g1))
RLt(a, b) ==
    LET l == LCM(Dn(a), Dn(b))
    IN  Nm(a) * (l \div Dn(a)) < Nm(b) * (l \div Dn(b))
RLe(a, b) ==
    LET l == LCM(Dn(a), Dn(b))
    IN  Nm(a) * (l \div Dn(a)) <= Nm(b) * (l \div Dn(b))

\* a / b of finite numbers: dividing by zero gives Infinity, -Infinity or NaN
RDiv(a, b) ==
    IF Nm(b) # 0 THEN Rat(Nm(a) * Dn(b), Dn(a) * Nm(b))
    ELSE IF Nm(a) > 0 THEN PosInfinity
    ELSE IF Nm(a) < 0 THEN NegInfinity
    ELSE NaN

\* x rounded to a multiple of 1/k, a tie going up: toFixed and Math.round(x * k) / k
RoundTo(x, k) ==
    IF k % Dn(x) = 0 THEN x
    ELSE Rat((2 * Nm(x) * k + Dn(x)) \div (2 * Dn(x)), k)

\* obj[k], or "undefined" (modelled with null where ?? and == null treat both alike)
Get(r, k) == IF k \in DOMAIN r THEN r[k] ELSE Null

\* Number(obj[k]): NaN for undefined, 0 for null
NumberOf(r, k) ==
    IF k \notin DOMAIN r THEN NaN ELSE IF IsNull(r[k]) THEN <<0>> ELSE r[k]

\* obj with obj[k] = v
With(r, k, v) == [x \in DOMAIN r \cup {k} |-> IF x = k THEN v ELSE r[x]]

----------------------------------------------------------------------------
(* macro_eval.js *)

MONTH_MAP == [Mar |-> 3, Jun |-> 6, Sep |-> 9, Dec |-> 12]

\* A quarter label "YYYY-Mmm" is the pair <<YYYY, "Mmm">>: split("-") of the string.
parseQuarterLabel(label) ==
    [y |-> label[1], m |-> MONTH_MAP[label[2]], key |-> <<label[1], label[2]>>]

\* the comparator: negative, zero or positive
sortByQuarter(a, b) ==
    LET A == parseQuarterLabel(a.Quarter)
        B == parseQuarterLabel(b.Quarter)
    IN  IF A.y # B.y THEN A.y - B.y ELSE A.m - B.m

\* a percentage that divides by prev instead of |prev|
pctChangeSigned(curr, prev) ==
    IF IsNull(prev) \/ IsNull(curr) THEN Null
    ELSE IF prev[1] = 0 THEN Null
    ELSE RMul(RDiv(RSub(curr, prev), prev), <<100>>)

\* ((curr - prev) / Math.abs(prev)) * 100
pctChange(curr, prev) ==
    IF IsNull(prev) \/ IsNull(curr) THEN Null
    ELSE IF prev = <<0>> THEN Null
    ELSE RMul(RDiv(RSub(curr, prev), <<Abs(Nm(prev)), Dn(prev)>>), <<100>>)

\* Map.set in array order: a later index overwrites an earlier one with the same key
indexByKey(rows) ==
    [k \in {parseQuarterLabel(rows[i].Quarter).key : i \in 1..Len(rows)} |->
        CHOOSE i \in 1..Len(rows) :
            /\ parseQuarterLabel(rows[i].Quarter).key = k
            /\ \A j \in 1..Len(rows) :
                   parseQuarterLabel(rows[j].Quarter).key = k => j <= i]

yoyKey(label) ==
    LET p == parseQuarterLabel(label)
        monStr == CHOOSE k \in DOMAIN MONTH_MAP : MONTH_MAP[k] = p.m
    IN  <<p.y - 1, monStr>>

\* Array.prototype.sort is stable: insert each element after the last one that
\* does not compare greater.
RECURSIVE InsertSorted(_, _)
InsertSorted(s, x) ==
    IF s = <<>> THEN <<x>>
    ELSE IF sortByQuarter(s[Len(s)], x) <= 0 THEN Append(s, x)
    ELSE Append(InsertSorted(SubSeq(s, 1, Len(s) - 1), x), s[Len(s)])

RECURSIVE SortRows(_)
SortRows(rows) ==
    IF rows = <<>> THEN <<>>
    ELSE InsertSorted(SortRows(SubSeq(rows, 1, Len(rows) - 1)), rows[Len(rows)])

\* toNum(r.Sales ?? r.Revenue ?? null)
getSales(r) ==
    IF ~IsNull(Get(r, "Sales")) THEN r.Sales ELSE Get(r, "Revenue")

\* smooth ? toNum(r["EPS smooth in Rs"] ?? r.EPS) : toNum(r["EPS in Rs"] ?? r.EPS)
getEps(r, sm) ==
    IF sm
    THEN IF ~IsNull(Get(r, "EPS smooth in Rs")) THEN r["EPS smooth in Rs"]
         ELSE Get(r, "EPS")
    ELSE IF ~IsNull(Get(r, "EPS in Rs")) THEN r["EPS in Rs"]
         ELSE Get(r, "EPS")

\* curr - base when both are known
change(curr, base) ==
    IF ~IsNull(base) /\ ~IsNull(curr) THEN RSub(curr, base) ELSE Null

\* the record at 1-based position i that QoQ compares with: rows[i - 1], or none
qoqBase(rows, i) == IF i > 1 THEN <<rows[i - 1]>> ELSE Null

\* a YoY base that falls back to the preceding position when the label is absent
yoyBaseByPosition(rows, i) ==
    LET byKey == indexByKey(rows)
        prevYearKey == yoyKey(rows[i].Quarter)
    IN  IF prevYearKey \in DOMAIN byKey THEN <<rows[byKey[prevYearKey]]>>
        ELSE qoqBase(rows, i)

\* the record that YoY compares with: the one indexed under yoyKey, or none
yoyBase(rows, i) ==
    LET byKey == indexByKey(rows)
        prevYearKey == yoyKey(rows[i].Quarter)
    IN  IF prevYearKey \in DOMAIN byKey THEN <<rows[byKey[prevYearKey]]>> ELSE Null

\* the body of rows.map((row, i) => ...)
growthRow(rows, i, sm) ==
    LET row == rows[i]
        sales == getSales(row)
        eps == getEps(row, sm)
        prev == qoqBase(rows, i)
        prevSales == IF ~IsNull(prev) THEN getSales(prev[1]) ELSE Null
        prevEps == IF ~IsNull(prev) THEN getEps(prev[1], sm) ELSE Null
        yoyRow == yoyBase(rows, i)
        yoySales == IF ~IsNull(yoyRow) THEN getSales(yoyRow[1]) ELSE Null
        yoyEps == IF ~IsNull(yoyRow) THEN getEps(yoyRow[1], sm) ELSE Null
        pct(curr, base) ==
            IF ~IsNull(base) /\ ~IsNull(curr) THEN pctChange(curr, base) ELSE Null
    IN  [Quarter |-> row.Quarter,
         Sales |-> sales,
         EPS |-> eps,
         sales_qoq_change |-> change(sales, prevSales),
         sales_qoq_pct |-> pct(sales, prevSales),
         sales_yoy_change |-> change(sales, yoySales),
         sales_yoy_pct |-> pct(sales, yoySales),
         eps_qoq_change |-> change(eps, prevEps),
         eps_qoq_pct |-> pct(eps, prevEps),
         eps_yoy_change |-> change(eps, yoyEps),
         eps_yoy_pct |-> pct(eps, yoyEps)]

\* the series growth is computed on: [...inputRows].sort(sortByQuarter)
growthSeries(rows) == SortRows(rows)

\* growth records that spread the input row under the computed fields
computeQuarterlyGrowthOnRows(rows, sm) ==
    LET sorted == growthSeries(rows)
    IN  [i \in 1..Len(sorted) |-> growthRow(sorted, i, sm) @@ sorted[i]]

computeQuarterlyGrowth(rows, sm) ==
    LET sorted == growthSeries(rows)
    IN  [i \in 1..Len(sorted) |-> growthRow(sorted, i, sm)]

----------------------------------------------------------------------------
(* Inputs of the growth calculator *)

MaxRows == 3

QuarterLabels == {<<2019, "Mar">>, <<2019, "Jun">>, <<2020, "Mar">>}

\* What a canonical row may carry for Sales/Revenue and the EPS fields.
RowShapes ==
    { ("Sales" :> <<5>>) @@ ("Expenses" :> <<4>>) @@ ("Operating Profit" :> <<1>>)
        @@ ("EPS in Rs" :> <<3>>) @@ ("EPS smooth in Rs" :> <<2>>),
      ("Sales" :> <<-4>>) @@ ("Expenses" :> <<6>>) @@ ("Operating Profit" :> <<-10>>)
        @@ ("EPS in Rs" :> <<-1>>) @@ ("EPS smooth in Rs" :> Null),
      ("Sales" :> <<0>>) @@ ("Expenses" :> <<0>>) @@ ("Operating Profit" :> <<0>>)
        @@ ("EPS in Rs" :> <<0>>) @@ ("EPS smooth in Rs" :> <<0>>),
      ("Revenue" :> <<8>>) @@ ("Expenses" :> <<2>>) @@ ("EPS in Rs" :> <<4>>)
        @@ ("EPS smooth in Rs" :> <<4>>),
      ("Expenses" :> <<1>>) @@ ("EPS" :> <<6>>) }

WithQuarter(shape, q) ==
    [k \in DOMAIN shape \cup {"Quarter"} |-> IF k = "Quarter" THEN q ELSE shape[k]]

CanonicalRows == {WithQuarter(s, q) : s \in RowShapes, q \in QuarterLabels}

RowArrays == UNION {[1..n -> CanonicalRows] : n \in 0..MaxRows}

\* no call of computeQuarterlyGrowth under way
GrowthIdle ==
    /\ inputRows = <<>>
    /\ smooth = FALSE
    /\ sortedRows = <<>>
    /\ growthOut = <<>>
    /\ gpc = "idle"

\* no call of addPerformanceToRows under way
PerfIdle ==
    /\ perfRows = <<>>
    /\ perfOut = <<>>
    /\ ppc = "idle"

\* no call of parsePastStockPrice under way
PriceIdle ==
    /\ outJson = <<>>
    /\ market = <<>>
    /\ closeCache = <<>>
    /\ item = 0
    /\ pricePc = "idle"
    /\ lookup = <<>>
    /\ currClose = <<>>
    /\ pastClose = <<>>
    /\ lookupLog = <<>>
    /\ callLog = <<>>

\* no call of parsePastResult on its own under way
DateIdle ==
    /\ dateRows = <<>>
    /\ dateEvents = <<>>
    /\ datedOut = <<>>
    /\ dpc = "idle"

\* no direct call of a scoring function under way
FnIdle ==
    /\ fnCall = <<>>
    /\ fnResult = <<>>
    /\ fpc = "idle"

\* no bulk run under way
PoolIdle ==
    /\ poolDriver = "none"
    /\ poolOutcome = <<>>
    /\ poolLimit = 0
    /\ poolIdx = 0
    /\ poolActive = 0
    /\ poolTask = <<>>
    /\ poolResults = <<>>
    /\ poolPromise = "pending"
    /\ poolPc = "idle"

\* no call of a retry wrapper under way
RetryIdle ==
    /\ retryWrapper = "none"
    /\ retryLimit = 0
    /\ retryOutcome = <<>>
    /\ retryI = 0
    /\ retryCalls = <<>>
    /\ retryWaits = <<>>
    /\ retryResult = <<>>
    /\ retryPc = "idle"

\* no filing observer started
ObserverIdle ==
    /\ seenFile = {}
    /\ nsePage = {}
    /\ cycles = <<>>
    /\ handed = <<>>

\* no bulk run, retry wrapper or observer under way
BulkIdle == PoolIdle /\ RetryIdle /\ ObserverIdle

\* no run of runPipeline under way
PipeIdle ==
    /\ request = <<>>
    /\ cursor = <<>>
    /\ results = <<>>
    /\ companyInfo = <<>>
    /\ stage = "idle"
    /\ stageLog = <<>>

GrowthInit ==
    /\ inputRows \in RowArrays
    /\ smooth \in BOOLEAN
    /\ sortedRows = <<>>
    /\ growthOut = <<>>
    /\ gpc = "input"
    /\ PerfIdle
    /\ PriceIdle
    /\ PipeIdle
    /\ DateIdle
    /\ FnIdle
    /\ BulkIdle

ComputeGrowth ==
    /\ gpc = "input"
    /\ sortedRows' = growthSeries(inputRows)
    /\ growthOut' = computeQuarterlyGrowth(inputRows, smooth)
    /\ gpc' = "done"
    /\ UNCHANGED <<inputRows, smooth, perfVars, priceVars, pipeVars>>
    /\ UNCHANGED <<dateVars, fnVars, bulkVars>>

GrowthNext == ComputeGrowth

SpecGrowth == GrowthInit /\ [][GrowthNext]_vars

----------------------------------------------------------------------------
(* result_eval.js *)

\* a table whose second band starts above the end of the first
PE_GROWTH_TABLE_Stepped ==
    << [pe_min |-> <<0>>, pe_max |-> <<10>>, yoy_min |-> <<5>>, yoy_max |-> <<8>>],
       [pe_min |-> <<10>>, pe_max |-> <<20>>, yoy_min |-> <<9>>, yoy_max |-> <<12>>],
       [pe_min |-> <<20>>, pe_max |-> <<30>>, yoy_min |-> <<12>>, yoy_max |-> <<15>>],
       [pe_min |-> <<30>>, pe_max |-> <<40>>, yoy_min |-> <<15>>, yoy_max |-> <<20>>],
       [pe_min |-> <<40>>, pe_max |-> <<80>>, yoy_min |-> <<20>>, yoy_max |-> <<35>>],
       [pe_min |-> <<80>>, pe_max |-> <<100>>, yoy_min |-> <<35>>, yoy_max |-> <<50>>],
       [pe_min |-> <<100>>, pe_max |-> <<200>>, yoy_min |-> <<50>>, yoy_max |-> <<70>>],
       [pe_min |-> <<200>>, pe_max |-> PosInfinity, yoy_min |-> <<70>>,
        yoy_max |-> <<100>>] >>

PE_GROWTH_TABLE ==
    << [pe_min |-> <<0>>, pe_max |-> <<10>>, yoy_min |-> <<5>>, yoy_max |-> <<8>>],
       [pe_min |-> <<10>>, pe_max |-> <<20>>, yoy_min |-> <<8>>, yoy_max |-> <<12>>],
       [pe_min |-> <<20>>, pe_max |-> <<30>>, yoy_min |-> <<12>>, yoy_max |-> <<15>>],
       [pe_min |-> <<30>>, pe_max |-> <<40>>, yoy_min |-> <<15>>, yoy_max |-> <<20>>],
       [pe_min |-> <<40>>, pe_max |-> <<80>>, yoy_min |-> <<20>>, yoy_max |-> <<35>>],
       [pe_min |-> <<80>>, pe_max |-> <<100>>, yoy_min |-> <<35>>, yoy_max |-> <<50>>],
       [pe_min |-> <<100>>, pe_max |-> <<200>>, yoy_min |-> <<50>>, yoy_max |-> <<70>>],
       [pe_min |-> <<200>>, pe_max |-> PosInfinity, yoy_min |-> <<70>>,
        yoy_max |-> <<100>>] >>

\* the exception a function raises instead of returning
Throw(msg) == [exception |-> msg]

\* of a record or null
IsThrow(v) == DOMAIN v = {"exception"}

\* pe >= b.pe_min && pe < b.pe_max
InBand(pe, b) ==
    /\ RLe(b.pe_min, pe)
    /\ (~IsFinite(b.pe_max) \/ RLt(pe, b.pe_max))

\* estimateGrowth raises instead of returning
estimateGrowthThrows(pe) == RLt(pe, <<0>>)

\* what estimateGrowth returns for a finite number it does not raise on
estimateGrowth(pe) ==
    IF \A k \in 1..Len(PE_GROWTH_TABLE) : ~InBand(pe, PE_GROWTH_TABLE[k]) THEN Null
    ELSE LET k == CHOOSE k \in 1..Len(PE_GROWTH_TABLE) :
                      /\ InBand(pe, PE_GROWTH_TABLE[k])
                      /\ \A j \in 1..(k - 1) : ~InBand(pe, PE_GROWTH_TABLE[j])
             band == PE_GROWTH_TABLE[k]
         IN  IF ~IsFinite(band.pe_max) THEN band.yoy_min
             ELSE LET ratio == RDiv(RSub(pe, band.pe_min),
                                    RSub(band.pe_max, band.pe_min))
                      growth == RAdd(band.yoy_min,
                                     RMul(ratio, RSub(band.yoy_max, band.yoy_min)))
                  IN  RoundTo(growth, 100)

\* lerpRange without its two clamping tests
lerpRangeUnclamped(x, x1, x2, y1, y2) ==
    RAdd(y1, RMul(RDiv(RSub(x, x1), RSub(x2, x1)), RSub(y2, y1)))

lerpRange(x, x1, x2, y1, y2) ==
    IF RLe(x, x1) THEN y1
    ELSE IF RLe(x2, x) THEN y2
    ELSE LET t == RDiv(RSub(x, x1), RSub(x2, x1))
         IN  RAdd(y1, RMul(t, RSub(y2, y1)))

ratioToScore(ratio) ==
    IF ~IsFinite(ratio) THEN <<-10>>
    ELSE IF RLt(ratio, <<3, 10>>) THEN <<-10>>
    ELSE IF RLt(ratio, <<7, 10>>) THEN lerpRange(ratio, <<3, 10>>, <<7, 10>>, <<-10>>, <<0>>)
    ELSE IF RLt(ratio, <<1>>) THEN lerpRange(ratio, <<7, 10>>, <<1>>, <<0>>, <<5>>)
    ELSE IF RLt(ratio, <<2>>) THEN lerpRange(ratio, <<1>>, <<2>>, <<5>>, <<10>>)
    ELSE <<10>>

ratioToQoqScore(r) ==
    IF ~IsFinite(r) THEN <<-10>>
    ELSE IF RLe(r, <<-2>>) THEN <<-10>>
    ELSE IF RLt(r, <<0>>) THEN lerpRange(r, <<-1>>, <<0>>, <<-10>>, <<0>>)
    ELSE IF RLt(r, <<1>>) THEN lerpRange(r, <<0>>, <<1>>, <<0>>, <<3>>)
    ELSE IF RLt(r, <<3>>) THEN lerpRange(r, <<1>>, <<3>>, <<3>>, <<10>>)
    ELSE <<10>>

ratioToPriceYoyScore(r) ==
    IF ~IsFinite(r) THEN <<-10>>
    ELSE IF RLe(r, <<-1>>) THEN <<-10>>
    ELSE IF RLt(r, <<0>>) THEN lerpRange(r, <<-1>>, <<0>>, <<-10>>, <<-5>>)
    ELSE IF RLt(r, <<1>>) THEN lerpRange(r, <<0>>, <<1>>, <<-5>>, <<5>>)
    ELSE IF RLt(r, <<3>>) THEN lerpRange(r, <<1>>, <<3>>, <<5>>, <<10>>)
    ELSE <<10>>

ratioToPriceQoqScore(r) ==
    IF ~IsFinite(r) THEN <<-10>>
    ELSE IF RLe(r, <<-3>>) THEN <<-10>>
    ELSE IF RLt(r, <<0>>) THEN lerpRange(r, <<-3>>, <<0>>, <<-10>>, <<-5>>)
    ELSE IF RLt(r, <<1>>) THEN lerpRange(r, <<0>>, <<1>>, <<-5>>, <<5>>)
    ELSE IF RLt(r, <<6>>) THEN lerpRange(r, <<1>>, <<6>>, <<5>>, <<10>>)
    ELSE <<10>>

\* v === null || v === undefined, for obj[k]
isNullish(r, k) == k \notin DOMAIN r \/ IsNull(r[k])

requiredPresent(obj, keys) == \A k \in keys : ~isNullish(obj, k)

\* price / (4 * EPS) when finite, of either sign, else null
safePEAnySign(EPS, price) ==
    LET pe == RDiv(price, RMul(<<4>>, EPS))
    IN  IF IsFinite(pe) THEN pe ELSE Null

\* price / (4 * EPS) when finite and >= 0, else null; arguments finite numbers
safePE(EPS, price) ==
    LET pe == RDiv(price, RMul(<<4>>, EPS))
    IN  IF IsFinite(pe) /\ RLe(<<0>>, pe) THEN pe ELSE Null

\* { actual, ratio, score } of one measure, the score rounded to 2 decimals
scoreEntry(actual, ratio, score) ==
    [actual |-> actual, ratio |-> ratio, score |-> RoundTo(score, 100)]

\* the optional price sub-block of the YoY block
priceYoyBlock(inputJson, expectedYoyGrowth) ==
    IF isNullish(inputJson, "price_yoy_pct") THEN Null
    ELSE IF ~IsFinite(inputJson.price_yoy_pct) THEN Null
    ELSE LET priceActual == inputJson.price_yoy_pct
             priceRatio == RDiv(priceActual, expectedYoyGrowth)
         IN  scoreEntry(priceActual, priceRatio, ratioToPriceYoyScore(priceRatio))

\* the optional price sub-block of the QoQ block
priceQoqBlock(inputJson, expectedQoqGrowth) ==
    IF isNullish(inputJson, "price_qoq_pct") THEN Null
    ELSE IF ~IsFinite(inputJson.price_qoq_pct) THEN Null
    ELSE LET priceActual == inputJson.price_qoq_pct
             priceRatio == RDiv(priceActual, expectedQoqGrowth)
         IN  scoreEntry(priceActual, priceRatio, ratioToPriceQoqScore(priceRatio))

\* the object evalYoyPerformance returns once the expected growth is known
yoyBlock(inputJson, expectedYoyGrowth) ==
    IF expectedYoyGrowth = Null THEN Null
    ELSE IF ~IsFinite(expectedYoyGrowth) \/ RLe(expectedYoyGrowth, <<0>>) THEN Null
    ELSE IF ~IsFinite(inputJson.sales_yoy_pct) \/ ~IsFinite(inputJson.eps_yoy_pct)
    THEN Null
    ELSE [expectedYoyGrowth |-> RoundTo(expectedYoyGrowth, 100),
          sales |-> scoreEntry(inputJson.sales_yoy_pct,
                               RDiv(inputJson.sales_yoy_pct, expectedYoyGrowth),
                               ratioToScore(RDiv(inputJson.sales_yoy_pct,
                                                 expectedYoyGrowth))),
          eps |-> scoreEntry(inputJson.eps_yoy_pct,
                             RDiv(inputJson.eps_yoy_pct, expectedYoyGrowth),
                             ratioToScore(RDiv(inputJson.eps_yoy_pct,
                                               expectedYoyGrowth))),
          price |-> priceYoyBlock(inputJson, expectedYoyGrowth)]

\* a block that carries an entry for each growth field it finds, and null for
\* the others
yoyBlockPartial(inputJson, expectedYoyGrowth) ==
    [expectedYoyGrowth |-> RoundTo(expectedYoyGrowth, 100),
     sales |-> IF isNullish(inputJson, "sales_yoy_pct") THEN Null
               ELSE scoreEntry(inputJson.sales_yoy_pct,
                               RDiv(inputJson.sales_yoy_pct, expectedYoyGrowth),
                               ratioToScore(RDiv(inputJson.sales_yoy_pct,
                                                 expectedYoyGrowth))),
     eps |-> IF isNullish(inputJson, "eps_yoy_pct") THEN Null
             ELSE scoreEntry(inputJson.eps_yoy_pct,
                             RDiv(inputJson.eps_yoy_pct, expectedYoyGrowth),
                             ratioToScore(RDiv(inputJson.eps_yoy_pct,
                                               expectedYoyGrowth))),
     price |-> priceYoyBlock(inputJson, expectedYoyGrowth)]

\* a YoY evaluation that gates on EPS and price only and fills what it can
evalYoyPerformancePartial(inputJson) ==
    IF ~requiredPresent(inputJson, {"EPS", "currentDateClosePrice"}) THEN Null
    ELSE IF inputJson.EPS = <<0>> THEN Null
    ELSE IF safePE(inputJson.EPS, inputJson.currentDateClosePrice) = Null THEN Null
    ELSE yoyBlockPartial(inputJson,
             estimateGrowth(safePE(inputJson.EPS, inputJson.currentDateClosePrice)))

evalYoyPerformance(inputJson) ==
    IF ~requiredPresent(inputJson,
            {"EPS", "currentDateClosePrice", "sales_yoy_pct", "eps_yoy_pct"})
    THEN Null
    ELSE IF ~IsFinite(inputJson.EPS) \/ inputJson.EPS = <<0>> THEN Null
    ELSE IF ~IsFinite(inputJson.currentDateClosePrice) THEN Null
    ELSE IF safePE(inputJson.EPS, inputJson.currentDateClosePrice) = Null THEN Null
    ELSE IF estimateGrowthThrows(safePE(inputJson.EPS, inputJson.currentDateClosePrice))
    THEN Throw("PE must be a positive number")
    ELSE yoyBlock(inputJson,
             estimateGrowth(safePE(inputJson.EPS, inputJson.currentDateClosePrice)))

\* the object evalQoqPerformance returns once the expected QoQ growth is known
qoqBlock(inputJson, expectedQoqGrowth) ==
    IF ~IsFinite(expectedQoqGrowth) \/ RLe(expectedQoqGrowth, <<0>>) THEN Null
    ELSE IF ~IsFinite(inputJson.sales_qoq_pct) \/ ~IsFinite(inputJson.eps_qoq_pct)
    THEN Null
    ELSE [expectedQoqGrowth |-> RoundTo(expectedQoqGrowth, 10000),
          sales |-> scoreEntry(inputJson.sales_qoq_pct,
                               RDiv(inputJson.sales_qoq_pct, expectedQoqGrowth),
                               ratioToQoqScore(RDiv(inputJson.sales_qoq_pct,
                                                    expectedQoqGrowth))),
          eps |-> scoreEntry(inputJson.eps_qoq_pct,
                             RDiv(inputJson.eps_qoq_pct, expectedQoqGrowth),
                             ratioToQoqScore(RDiv(inputJson.eps_qoq_pct,
                                                  expectedQoqGrowth))),
          price |-> priceQoqBlock(inputJson, expectedQoqGrowth)]

\* evalQoqPerformance from the expected YoY growth on
qoqFromExpectedYoy(inputJson, expectedYoy) ==
    IF expectedYoy = Null THEN Null
    ELSE IF ~IsFinite(expectedYoy) \/ RLe(expectedYoy, <<0>>) THEN Null
    ELSE qoqBlock(inputJson, RDiv(expectedYoy, <<4>>))

evalQoqPerformance(inputJson) ==
    IF ~requiredPresent(inputJson,
            {"EPS", "currentDateClosePrice", "sales_qoq_pct", "eps_qoq_pct"})
    THEN Null
    ELSE IF ~IsFinite(inputJson.EPS) \/ inputJson.EPS = <<0>> THEN Null
    ELSE IF ~IsFinite(inputJson.currentDateClosePrice) THEN Null
    ELSE IF safePE(inputJson.EPS, inputJson.currentDateClosePrice) = Null THEN Null
    ELSE IF estimateGrowthThrows(safePE(inputJson.EPS, inputJson.currentDateClosePrice))
    THEN Throw("PE must be a positive number")
    ELSE qoqFromExpectedYoy(inputJson,
             estimateGrowth(safePE(inputJson.EPS, inputJson.currentDateClosePrice)))

\* Math.sign(a) * a * a
\* a * a, the sign of a dropped
plainSquare(a) == RMul(a, a)

signedSquare(a) == IF RLt(a, <<0>>) THEN RSub(<<0>>, RMul(a, a)) ELSE RMul(a, a)

RECURSIVE IntSqrt(_, _, _)
\* the largest r in lo..hi with r * r <= n
IntSqrt(n, lo, hi) ==
    IF lo = hi THEN lo
    ELSE LET mid == (lo + hi + 1) \div 2
         IN  IF mid * mid <= n THEN IntSqrt(n, mid, hi) ELSE IntSqrt(n, lo, mid - 1)

\* Math.sqrt(x).toFixed(4) of a non-negative x with at most 4 decimals
sqrtFixed(x) ==
    LET N == Nm(x) * (10000 \div Dn(x))
        r == IntSqrt(N, 0, 4000)
        rest == 10000 * (N - r * r)
        t == CHOOSE t \in 0..99 :
                 /\ 200 * r * t + t * t <= rest
                 /\ (t = 99 \/ 200 * r * (t + 1) + (t + 1) * (t + 1) > rest)
        s == 100 * r + t
    IN  IF 200 * r * t + t * t + s < rest THEN Rat(s + 1, 10000) ELSE Rat(s, 10000)

RECURSIVE sumSignedSquares(_)
\* the sum of sq(a) over the component scores
sumSignedSquares(parts) ==
    IF parts = <<>> THEN <<0>>
    ELSE RAdd(signedSquare(Head(parts)), sumSignedSquares(Tail(parts)))

\* { x, abs_sqrt_x } of the given component scores, null when one is missing
aggregateScores(parts) ==
    IF \E i \in 1..Len(parts) : parts[i] = Null THEN Null
    ELSE LET xFixed == RoundTo(sumSignedSquares(parts), 10000)
         IN  [x |-> xFixed,
              abs_sqrt_x |-> sqrtFixed(<<Abs(Nm(xFixed)), Dn(xFixed)>>)]

\* perf.yoy?.sales?.score and the like
scoreAt(block, key) ==
    IF block = Null THEN Null
    ELSE IF block[key] = Null THEN Null
    ELSE block[key].score

computeFinalPerformanceScore(perf) ==
    IF perf.yoy = Null \/ perf.qoq = Null THEN Null
    ELSE aggregateScores(<<scoreAt(perf.yoy, "sales"), scoreAt(perf.yoy, "eps"),
                           scoreAt(perf.qoq, "sales"), scoreAt(perf.qoq, "eps")>>)

computeFinalPriceScore(perf) ==
    IF perf.yoy = Null \/ perf.qoq = Null THEN Null
    ELSE aggregateScores(<<scoreAt(perf.yoy, "price"), scoreAt(perf.qoq, "price")>>)

\* the close of the nearest earlier row whose Number(currentDateClosePrice) is
\* finite (null counts as 0), or undefined (NaN here) when there is none
prevFiniteClose(out, i) ==
    LET js == {j \in 1..(i - 1) : IsFinite(NumberOf(out[j], "currentDateClosePrice"))}
    IN  IF js = {} THEN NaN
        ELSE NumberOf(out[CHOOSE j \in js : \A k \in js : k <= j],
                      "currentDateClosePrice")

derivePriceQoqPctOnArray(rows) ==
    [i \in 1..Len(rows) |->
        IF IsFinite(NumberOf(rows[i], "price_qoq_pct")) THEN rows[i]
        ELSE LET curr == NumberOf(rows[i], "currentDateClosePrice")
                 prev == prevFiniteClose(rows, i)
             IN  With(rows[i], "price_qoq_pct",
                      IF IsFinite(curr) /\ IsFinite(prev) /\ prev # <<0>>
                      THEN RMul(RDiv(RSub(curr, prev), prev), <<100>>)
                      ELSE Null)]

\* the performance object built from the two blocks of a row
performanceFrom(yoy, qoq) ==
    [yoy |-> yoy,
     qoq |-> qoq,
     final_performance_score |->
         IF yoy # Null /\ qoq # Null
         THEN computeFinalPerformanceScore([yoy |-> yoy, qoq |-> qoq])
         ELSE Null,
     final_price_score |->
         IF yoy # Null /\ qoq # Null
         THEN computeFinalPriceScore([yoy |-> yoy, qoq |-> qoq])
         ELSE Null]

\* the performance object of one row (after price_qoq_pct is derived)
performanceOf(row) == performanceFrom(evalYoyPerformance(row), evalQoqPerformance(row))

\* some row makes the scoring raise
scoringThrows(rowsWithDerivedPrice) ==
    \E i \in 1..Len(rowsWithDerivedPrice) :
        \/ IsThrow(evalYoyPerformance(rowsWithDerivedPrice[i]))
        \/ IsThrow(evalQoqPerformance(rowsWithDerivedPrice[i]))

\* addPerformanceToRows raises instead of returning
addPerformanceThrows(rows) == scoringThrows(derivePriceQoqPctOnArray(rows))

\* each row with its performance object
scoreRows(rowsWithDerivedPrice) ==
    [i \in 1..Len(rowsWithDerivedPrice) |->
        With(rowsWithDerivedPrice[i], "performance",
             performanceOf(rowsWithDerivedPrice[i]))]

\* what addPerformanceToRows returns when it does not raise
addPerformanceToRows(rows) == scoreRows(derivePriceQoqPctOnArray(rows))

----------------------------------------------------------------------------
(* Inputs of the scoring engine *)

MaxPerfRows == 2

\* the growth and price percentages of a row: all present
PctAll ==
    [sales_yoy_pct |-> <<10>>, eps_yoy_pct |-> <<30>>, sales_qoq_pct |-> <<2>>,
     eps_qoq_pct |-> <<-1>>, price_yoy_pct |-> <<20>>]

\* no YoY base for sales, no prior-year price
PctNoYoy ==
    [sales_yoy_pct |-> Null, eps_yoy_pct |-> <<30>>, sales_qoq_pct |-> <<2>>,
     eps_qoq_pct |-> <<-1>>, price_yoy_pct |-> Null]

\* the first record of a series: no QoQ base, price_qoq_pct already null
PctNoQoq ==
    [sales_yoy_pct |-> <<10>>, eps_yoy_pct |-> <<-5>>, sales_qoq_pct |-> Null,
     eps_qoq_pct |-> Null, price_yoy_pct |-> <<20>>, price_qoq_pct |-> Null]

\* price_qoq_pct supplied by the caller
PctGivenQoq ==
    [sales_yoy_pct |-> <<3>>, eps_yoy_pct |-> <<7, 2>>, sales_qoq_pct |-> <<-3>>,
     eps_qoq_pct |-> <<9>>, price_yoy_pct |-> Null, price_qoq_pct |-> <<5>>]

\* a row with the given percentages, EPS and close price
ScoredRow(p, EPS, price) == With(With(p, "EPS", EPS), "currentDateClosePrice", price)

ScoredInputRows ==
    { ScoredRow(PctAll, <<5>>, <<100>>), ScoredRow(PctAll, <<5>>, <<4000>>),
      ScoredRow(PctAll, <<5>>, Null), ScoredRow(PctAll, <<5>>, <<-100>>),
      ScoredRow(PctAll, <<5>>, <<0>>), ScoredRow(PctAll, <<0>>, <<100>>),
      ScoredRow(PctAll, <<-2>>, <<100>>), ScoredRow(PctAll, <<-2>>, <<-100>>),
      ScoredRow(PctAll, <<-2>>, <<0>>), ScoredRow(PctAll, Null, <<100>>),
      ScoredRow(PctNoYoy, <<5>>, <<100>>), ScoredRow(PctNoYoy, <<-2>>, <<-100>>),
      ScoredRow(PctNoQoq, <<5>>, <<100>>), ScoredRow(PctNoQoq, <<5>>, <<4000>>),
      ScoredRow(PctGivenQoq, <<5>>, <<100>>), ScoredRow(PctGivenQoq, <<0>>, <<100>>),
      ScoredRow(PctGivenQoq, <<-2>>, <<100>>) }

PerfInit ==
    /\ perfRows \in UNION {[1..n -> ScoredInputRows] : n \in 1..MaxPerfRows}
    /\ perfOut = <<>>
    /\ ppc = "input"
    /\ GrowthIdle
    /\ PriceIdle
    /\ PipeIdle
    /\ DateIdle
    /\ FnIdle
    /\ BulkIdle

AddPerformance ==
    /\ ppc = "input"
    /\ IF addPerformanceThrows(perfRows)
       THEN perfOut' = <<>> /\ ppc' = "threw"
       ELSE perfOut' = addPerformanceToRows(perfRows) /\ ppc' = "done"
    /\ UNCHANGED <<perfRows, growthVars, priceVars, pipeVars>>
    /\ UNCHANGED <<dateVars, fnVars, bulkVars>>

PerfNext == AddPerformance

SpecPerf == PerfInit /\ [][PerfNext]_vars

----------------------------------------------------------------------------
(* result_eval.js: the scoring functions called on their own *)

MaxRatioTenths == 70

MaxPE == 250

CurveNames ==
    {"ratioToScore", "ratioToQoqScore", "ratioToPriceYoyScore", "ratioToPriceQoqScore"}

\* the ratios a curve is called with: the tenths around its break points,
\* two values next to a break point, very large ones and the non-finite numbers
CurveRatios ==
    {Rat(k, 10) : k \in (-MaxRatioTenths)..MaxRatioTenths}
    \cup {<<29, 100>>, <<199, 100>>, <<1000000>>, <<-1000000>>,
          NaN, PosInfinity, NegInfinity}

\* the PEs estimateGrowth is called with: the whole ones up to MaxPE, the
\* hundredth below each band boundary, a very large one and negative ones
GrowthPEs ==
    {<<n>> : n \in 0..MaxPE}
    \cup {RSub(PE_GROWTH_TABLE[k].pe_min, <<1, 100>>) : k \in 1..Len(PE_GROWTH_TABLE)}
    \cup {<<100000>>, <<-3>>}

FnCalls ==
    [fn : CurveNames, arg : CurveRatios] \cup [fn : {"estimateGrowth"}, arg : GrowthPEs]

\* the curve of that name applied to a ratio
curveOf(fn, r) ==
    CASE fn = "ratioToScore" -> ratioToScore(r)
      [] fn = "ratioToQoqScore" -> ratioToQoqScore(r)
      [] fn = "ratioToPriceYoyScore" -> ratioToPriceYoyScore(r)
      [] fn = "ratioToPriceQoqScore" -> ratioToPriceQoqScore(r)

FnInit ==
    /\ fnCall \in FnCalls
    /\ fnResult = <<>>
    /\ fpc = "input"
    /\ GrowthIdle
    /\ PerfIdle
    /\ PriceIdle
    /\ PipeIdle
    /\ DateIdle
    /\ BulkIdle

\* ratioToScore(r), ratioToQoqScore(r), ratioToPriceYoyScore(r), ratioToPriceQoqScore(r)
ScoreRatio ==
    /\ fpc = "input"
    /\ fnCall.fn \in CurveNames
    /\ fnResult' = curveOf(fnCall.fn, fnCall.arg)
    /\ fpc' = "done"
    /\ UNCHANGED <<fnCall, growthVars, perfVars, priceVars, pipeVars, dateVars>>
    /\ UNCHANGED bulkVars

\* estimateGrowth(pe)
EstimateGrowth ==
    /\ fpc = "input"
    /\ fnCall.fn = "estimateGrowth"
    /\ IF estimateGrowthThrows(fnCall.arg)
       THEN fnResult' = <<>> /\ fpc' = "threw"
       ELSE fnResult' = estimateGrowth(fnCall.arg) /\ fpc' = "done"
    /\ UNCHANGED <<fnCall, growthVars, perfVars, priceVars, pipeVars, dateVars>>
    /\ UNCHANGED bulkVars

FnNext == ScoreRatio \/ EstimateGrowth

SpecFunctions == FnInit /\ [][FnNext]_vars

----------------------------------------------------------------------------
(* past_result_price_eval.js: dates *)

\* A string is the sequence of its characters; an ISO date "YYYY-MM-DD" is the
\* triple <<YYYY, MM, DD>> of the numbers it is formatted from and parsed to.

Digits == {"0", "1", "2", "3", "4", "5", "6", "7", "8", "9"}

DigitValue(c) ==
    CASE c = "0" -> 0 [] c = "1" -> 1 [] c = "2" -> 2 [] c = "3" -> 3 [] c = "4" -> 4
      [] c = "5" -> 5 [] c = "6" -> 6 [] c = "7" -> 7 [] c = "8" -> 8 [] c = "9" -> 9

UpperCase ==
    <<"A", "B", "C", "D", "E", "F", "G", "H", "I", "J", "K", "L", "M",
      "N", "O", "P", "Q", "R", "S", "T", "U", "V", "W", "X", "Y", "Z">>

LowerCase ==
    <<"a", "b", "c", "d", "e", "f", "g", "h", "i", "j", "k", "l", "m",
      "n", "o", "p", "q", "r", "s", "t", "u", "v", "w", "x", "y", "z">>

\* c.toLowerCase()
toLowerCase(c) ==
    IF \E k \in 1..26 : UpperCase[k] = c
    THEN LowerCase[CHOOSE k \in 1..26 : UpperCase[k] = c]
    ELSE c

\* \s of the strings met here
IsSpace(c) == c = " " \/ c = "\t"

RECURSIVE collapseSpaces(_)
\* s.replace(/,/g, " ").replace(/\s+/g, " ")
collapseSpaces(s) ==
    IF s = <<>> THEN <<>>
    ELSE IF IsSpace(Head(s)) \/ Head(s) = ","
         THEN IF Len(s) > 1 /\ (IsSpace(s[2]) \/ s[2] = ",")
              THEN collapseSpaces(Tail(s))
              ELSE <<" ">> \o collapseSpaces(Tail(s))
         ELSE <<Head(s)>> \o collapseSpaces(Tail(s))

\* s.trim() of a string whose spaces are collapsed
trim(s) ==
    LET from == IF s # <<>> /\ s[1] = " " THEN 2 ELSE 1
        to == IF s # <<>> /\ s[Len(s)] = " " THEN Len(s) - 1 ELSE Len(s)
    IN  SubSeq(s, from, to)

\* dmy.replace(/,/g, " ").replace(/\s+/g, " ").trim().toLowerCase()
normalizeDmy(dmy) ==
    LET t == trim(collapseSpaces(dmy))
    IN  [k \in 1..Len(t) |-> toLowerCase(t[k])]

\* s has n digits from position p on
DigitsAt(s, p, n) == p + n - 1 <= Len(s) /\ \A k \in p..(p + n - 1) : s[k] \in Digits

\* \d{1,2}\/\d{1,2}\/\d{4} matches s at position p, the day taking a digits and the
\* month b digits
MatchesAt(s, p, a, b) ==
    /\ DigitsAt(s, p, a)
    /\ p + a <= Len(s) /\ s[p + a] = "/"
    /\ DigitsAt(s, p + a + 1, b)
    /\ p + a + b + 1 <= Len(s) /\ s[p + a + b + 1] = "/"
    /\ DigitsAt(s, p + a + b + 2, 4)

\* /\d{1,2}\/\d{1,2}\/\d{4}/.test(s)
hasDmy(s) == \E p \in 1..Len(s) : \E a, b \in 1..2 : MatchesAt(s, p, a, b)

RECURSIVE parseInt(_)
\* parseInt(digits, 10)
parseInt(digits) ==
    IF digits = <<>> THEN 0
    ELSE 10 * parseInt(SubSeq(digits, 1, Len(digits) - 1)) + DigitValue(digits[Len(digits)])

\* the ISO date of the groups of s.match(/^(\d{1,2})\/(\d{1,2})\/(\d{4})/), or null
dmyGroupsToISO(s, a, b) ==
    LET dd == parseInt(SubSeq(s, 1, a))
        mm == parseInt(SubSeq(s, a + 2, a + b + 1))
        yyyy == parseInt(SubSeq(s, a + b + 3, a + b + 6))
    IN  IF dd < 1 \/ dd > 31 \/ mm < 1 \/ mm > 12 \/ yyyy < 1900 THEN Null
        ELSE <<yyyy, mm, dd>>

\* parseDDMMYYYYtoISO of a normalized string
parseNormalized(s) ==
    IF ~hasDmy(s) THEN Null
    ELSE IF ~\E a, b \in 1..2 : MatchesAt(s, 1, a, b) THEN Null
    ELSE LET ab == CHOOSE ab \in (1..2) \X (1..2) : MatchesAt(s, 1, ab[1], ab[2])
         IN  dmyGroupsToISO(s, ab[1], ab[2])

\* parseDDMMYYYYtoISO of item.dateTimeRaw (null when the field is null or missing)
parseDDMMYYYYtoISO(obj) ==
    IF isNullish(obj, "dateTimeRaw") THEN Null
    ELSE parseNormalized(normalizeDmy(obj.dateTimeRaw))

IsLeapYear(y) == (y % 4 = 0 /\ y % 100 # 0) \/ y % 400 = 0

DaysInMonth(y, m) ==
    IF m = 2 THEN (IF IsLeapYear(y) THEN 29 ELSE 28)
    ELSE IF m \in {4, 6, 9, 11} THEN 30 ELSE 31

\* new Date(Date.UTC(y, m - 1, d)) for 1 <= d <= 31: a day past the end of the month
\* rolls into the next month
utcDate(iso) ==
    IF iso[3] > DaysInMonth(iso[1], iso[2])
    THEN <<iso[1], iso[2] + 1, iso[3] - DaysInMonth(iso[1], iso[2])>>
    ELSE iso

\* the calendar day before a valid date
previousDay(dt) ==
    IF dt[3] > 1 THEN <<dt[1], dt[2], dt[3] - 1>>
    ELSE IF dt[2] > 1 THEN <<dt[1], dt[2] - 1, DaysInMonth(dt[1], dt[2] - 1)>>
    ELSE <<dt[1] - 1, 12, 31>>

RECURSIVE shiftISODate(_, _)
\* shiftISODate for deltaDays <= 0
shiftISODate(isoDate, deltaDays) ==
    IF deltaDays = 0 THEN utcDate(isoDate)
    ELSE previousDay(shiftISODate(isoDate, deltaDays + 1))

\* the same calendar date of the year before, as parsePastStockPrice builds it
pastYearDate(currentDateISO) ==
    <<currentDateISO[1] - 1, currentDateISO[2], currentDateISO[3]>>

----------------------------------------------------------------------------
(* past_result_price_eval.js: nearest close, cache, parsePastStockPrice *)

\* maxBackDays of the current-date lookup
CurrentBackDays == 7

\* maxBackDays of the prior-year lookup
PastYearBackDays == 10

stockCode == "HCLTECH"

\* the days on which the collaborator may have a close, and that close
ClosePrice ==
    (<<2020, 5, 7>> :> <<100>>) @@ (<<2020, 4, 28>> :> <<80>>) @@
    (<<2021, 5, 5>> :> <<120>>) @@ (<<2019, 5, 7>> :> <<50>>)

MarketDays == DOMAIN ClosePrice

\* what getPriceAt does for a date: "close" (an object with a finite close),
\* "none" (nothing usable) or "throw"
Markets ==
    {m \in [MarketDays -> {"close", "none", "throw"}] :
        \A d \in MarketDays : m[d] = "throw" => d = <<2020, 5, 7>>}

priceAnswer(m, date) == IF date \in DOMAIN m THEN m[date] ELSE "none"

\* { close, usedDateISO } of a resolved and of an exhausted search
foundClose(tryDate) == [close |-> ClosePrice[tryDate], usedDateISO |-> tryDate]

noClose == [close |-> Null, usedDateISO |-> Null]

RECURSIVE searchFrom(_, _, _, _)
\* the for loop of getNearestClose from attempt i on
searchFrom(m, tryDate, i, maxBackDays) ==
    IF i > maxBackDays THEN noClose
    ELSE IF priceAnswer(m, tryDate) = "close" THEN foundClose(tryDate)
    ELSE searchFrom(m, shiftISODate(tryDate, -1), i + 1, maxBackDays)

\* getNearestClose against the collaborator m
getNearestClose(m, isoDate, maxBackDays) == searchFrom(m, isoDate, 0, maxBackDays)

\* `${stockCode}|${isoDate}`
cacheKey(code, isoDate) == <<code, isoDate>>

\* Number.isFinite(close) ? close : null
finiteOrNull(close) == IF close # Null /\ IsFinite(close) THEN close ELSE Null

\* the item with its three price fields set from the two (finite or null) closes
withPriceFields(it, curr, past) ==
    With(With(With(it, "currentDateClosePrice", curr), "pastYearDateClosePrice", past),
         "price_yoy_pct",
         IF curr # Null /\ past # Null /\ past # <<0>>
         THEN RMul(RDiv(RSub(curr, past), past), <<100>>)
         ELSE Null)

\* price fields that are all null unless both closes are there
withPriceFieldsAllOrNone(it, curr, past) ==
    IF curr = Null \/ past = Null THEN withPriceFields(it, Null, Null)
    ELSE withPriceFields(it, curr, past)

\* the three fields as lines 153-167 set them from currClose and pastClose
priceFields(it, curr, past) == withPriceFields(it, finiteOrNull(curr), finiteOrNull(past))

\* a search that is allowed one more attempt
newLookupOneMore(which, isoDate, maxBackDays) ==
    [which |-> which, isoDate |-> isoDate, maxBackDays |-> maxBackDays + 1,
     tryDate |-> isoDate, i |-> 0]

\* the getCachedNearestClose call for a date
newLookup(which, isoDate, maxBackDays) ==
    [which |-> which, isoDate |-> isoDate, maxBackDays |-> maxBackDays,
     tryDate |-> isoDate, i |-> 0]

\* the for loop moves to the next item, or ends
NextItem ==
    /\ item' = item + 1
    /\ pricePc' = IF item + 1 > Len(outJson) THEN "done" ELSE "item"

\* the item gets its default fields and its date is parsed
BeginItem ==
    /\ pricePc = "item"
    /\ outJson' = [outJson EXCEPT ![item] = withPriceFields(@, Null, Null)]
    /\ IF parseDDMMYYYYtoISO(outJson[item]) = Null
       THEN NextItem /\ lookup' = lookup
       ELSE /\ lookup' = newLookup("current", parseDDMMYYYYtoISO(outJson[item]),
                                   CurrentBackDays)
            /\ pricePc' = "lookup"
            /\ item' = item
    /\ UNCHANGED <<market, closeCache, currClose, pastClose, lookupLog, callLog>>
    /\ UNCHANGED <<growthVars, perfVars, pipeVars>>
    /\ UNCHANGED <<dateVars, fnVars, bulkVars>>

\* the current close is followed at once by the assignment of the fields
DeliverCurrentOnly(result, hit) ==
    /\ lookupLog' = Append(lookupLog,
                           [item |-> item, which |-> lookup.which,
                            isoDate |-> lookup.isoDate, hit |-> hit,
                            close |-> result.close])
    /\ currClose' = result.close
    /\ pastClose' = Null
    /\ lookup' = <<>>
    /\ pricePc' = "finish"

\* getCachedNearestClose returns result: the current close is followed by the
\* prior-year lookup, the prior-year close by the assignment of the fields
Deliver(result, hit) ==
    /\ lookupLog' = Append(lookupLog,
                           [item |-> item, which |-> lookup.which,
                            isoDate |-> lookup.isoDate, hit |-> hit,
                            close |-> result.close])
    /\ IF lookup.which = "current"
       THEN /\ currClose' = result.close
            /\ pastClose' = pastClose
            /\ lookup' = newLookup("past", pastYearDate(lookup.isoDate),
                                   PastYearBackDays)
            /\ pricePc' = "lookup"
       ELSE /\ pastClose' = result.close
            /\ currClose' = currClose
            /\ lookup' = <<>>
            /\ pricePc' = "finish"

\* getCachedNearestClose finds the key in closeCache
CachedLookup ==
    /\ pricePc = "lookup"
    /\ cacheKey(stockCode, lookup.isoDate) \in DOMAIN closeCache
    /\ Deliver(closeCache[cacheKey(stockCode, lookup.isoDate)], TRUE)
    /\ UNCHANGED <<outJson, market, closeCache, item, callLog>>
    /\ UNCHANGED <<growthVars, perfVars, pipeVars>>
    /\ UNCHANGED <<dateVars, fnVars, bulkVars>>

\* getCachedNearestClose misses and calls getNearestClose
StartSearch ==
    /\ pricePc = "lookup"
    /\ cacheKey(stockCode, lookup.isoDate) \notin DOMAIN closeCache
    /\ pricePc' = "search"
    /\ UNCHANGED <<outJson, market, closeCache, item, lookup, currClose, pastClose,
                   lookupLog, callLog>>
    /\ UNCHANGED <<growthVars, perfVars, pipeVars>>
    /\ UNCHANGED <<dateVars, fnVars, bulkVars>>

\* the search ends with result, which is returned and not cached
EndSearchUncached(result) ==
    /\ closeCache' = closeCache
    /\ Deliver(result, FALSE)

\* the search ends with result, which is cached and returned
EndSearch(result) ==
    /\ closeCache' = (cacheKey(stockCode, lookup.isoDate) :> result) @@ closeCache
    /\ Deliver(result, FALSE)

\* one iteration of the loop of getNearestClose: a getPriceAt call
Query ==
    /\ pricePc = "search"
    /\ callLog' = Append(callLog,
                         [item |-> item, which |-> lookup.which,
                          date |-> lookup.tryDate,
                          answer |-> priceAnswer(market, lookup.tryDate)])
    /\ IF priceAnswer(market, lookup.tryDate) = "close"
       THEN EndSearch(foundClose(lookup.tryDate))
       ELSE IF lookup.i + 1 <= lookup.maxBackDays
       THEN /\ lookup' = [lookup EXCEPT !.tryDate = shiftISODate(@, -1), !.i = @ + 1]
            /\ UNCHANGED <<closeCache, pricePc, currClose, pastClose, lookupLog>>
       ELSE EndSearch(noClose)
    /\ UNCHANGED <<outJson, market, item>>
    /\ UNCHANGED <<growthVars, perfVars, pipeVars>>
    /\ UNCHANGED <<dateVars, fnVars, bulkVars>>

\* the three fields of the item are assigned
FinishItem ==
    /\ pricePc = "finish"
    /\ outJson' = [outJson EXCEPT ![item] = priceFields(@, currClose, pastClose)]
    /\ NextItem
    /\ currClose' = Null
    /\ pastClose' = Null
    /\ UNCHANGED <<market, closeCache, lookup, lookupLog, callLog>>
    /\ UNCHANGED <<growthVars, perfVars, pipeVars>>
    /\ UNCHANGED <<dateVars, fnVars, bulkVars>>

----------------------------------------------------------------------------
(* Inputs of price attachment *)

MaxPriceItems == 2

\* "07/05/2020"
Raw20200507 == <<"0", "7", "/", "0", "5", "/", "2", "0", "2", "0">>

\* "7/5/2021, 10:30 AM"
Raw20210507 ==
    <<"7", "/", "5", "/", "2", "0", "2", "1", ",", " ", "1", "0", ":", "3", "0", " ",
      "A", "M">>

\* "Today"
RawToday == <<"T", "o", "d", "a", "y">>

\* "32/05/2020"
RawBadDay == <<"3", "2", "/", "0", "5", "/", "2", "0", "2", "0">>

RawDates == {Raw20200507, Raw20210507, RawToday, RawBadDay, Null}

\* a record as it leaves date attachment: its growth fields and dateTimeRaw
datedRecord(raw, k) ==
    [Quarter |-> <<2019 + k, "Mar">>, Sales |-> <<5 * k>>, EPS |-> <<k>>,
     sales_qoq_pct |-> <<10 * k>>, eps_yoy_pct |-> Null, dateTimeRaw |-> raw]

DatedArrays ==
    UNION {{[k \in 1..n |-> datedRecord(raws[k], k)] : raws \in [1..n -> RawDates]} :
              n \in 1..MaxPriceItems}

PriceInit ==
    /\ outJson \in DatedArrays
    /\ market \in Markets
    /\ closeCache = <<>>
    /\ item = 1
    /\ pricePc = "item"
    /\ lookup = <<>>
    /\ currClose = Null
    /\ pastClose = Null
    /\ lookupLog = <<>>
    /\ callLog = <<>>
    /\ GrowthIdle
    /\ PerfIdle
    /\ PipeIdle
    /\ DateIdle
    /\ FnIdle
    /\ BulkIdle

PriceNext == BeginItem \/ CachedLookup \/ StartSearch \/ Query \/ FinishItem

SpecPrice == PriceInit /\ [][PriceNext]_vars

----------------------------------------------------------------------------
(* bse_quarterly_past_results_fetcher.js *)

Q_TO_MONTH == <<"Mar", "Jun", "Sep", "Dec">>

\* key({ year, q }) of enumerateQuarters
quarterKey(yq) == yq[1] * 10 + yq[2]

\* the qtr code of a regular (non-NBFC) company
quarterToCode(year, q) == (year - 1994) * 4 + q

\* q++; if (q > 4) { q = 1; y++; }
nextQuarter(yq) == IF yq[2] + 1 > 4 THEN <<yq[1] + 1, 1>> ELSE <<yq[1], yq[2] + 1>>

\* the while condition of enumerateQuarters
inRange(yq, to) == yq[1] < to[1] \/ (yq[1] = to[1] /\ yq[2] <= to[2])

\* what fetchBseQuarterRange pushes for a quarter: the page when fetchQuarterPage
\* returns a table ("page"), its { ok: false } when it finds none ("notable"),
\* and the catch block's entry when it throws ("throw")
quarterResult(yq, outcome, page) ==
    LET base == [quarter |-> <<yq[1], Q_TO_MONTH[yq[2]]>>, year |-> yq[1], q |-> yq[2],
                 qtrCode |-> quarterToCode(yq[1], yq[2]), rType |-> "c"]
    IN  IF outcome = "page" THEN With(With(base, "ok", TRUE), "rows", page)
        ELSE With(With(base, "ok", FALSE), "error", outcome)

\* a catch block that records nothing for the quarter
pushNothingOnFailure(rs, yq, outcome, page) ==
    IF outcome = "page" THEN Append(rs, quarterResult(yq, outcome, page)) ELSE rs

\* results after the loop body ran for the quarter
pushResult(rs, yq, outcome, page) == Append(rs, quarterResult(yq, outcome, page))

----------------------------------------------------------------------------
(* bse_quarterly_results_parser.js *)

\* The rows of a result page are kept as the value each label family resolves
\* to, in Rs million; a family without a matching row is absent.

\* getValueByLabels(rows, LABELS[family]): 0 when no row matches
getValueByLabels(rows, family) == IF family \in DOMAIN rows THEN rows[family] ELSE <<0>>

absVal(x) == <<Abs(Nm(x)), Dn(x)>>

millionToCrore(m) == RDiv(m, <<10>>)

rnd(x) == RoundTo(x, 1)

\* +x.toFixed(2): two decimals, ties away from zero
toFixed2(x) ==
    IF Nm(x) < 0 THEN RSub(<<0>>, RoundTo(absVal(x), 100)) ELSE RoundTo(x, 100)

\* taxM: the single Tax line, else current + deferred, as a magnitude
taxOf(rows) ==
    IF getValueByLabels(rows, "TAX_TOTAL") # <<0>>
    THEN absVal(getValueByLabels(rows, "TAX_TOTAL"))
    ELSE absVal(RAdd(getValueByLabels(rows, "TAX_CURRENT"),
                     getValueByLabels(rows, "TAX_DEFERRED")))

\* eps: Basic, else Diluted
epsOf(rows) ==
    IF getValueByLabels(rows, "EPS_BAS") # <<0>> THEN getValueByLabels(rows, "EPS_BAS")
    ELSE getValueByLabels(rows, "EPS_DIL")

\* expensesM = Sales + OtherIncome - Interest - Depreciation - PBT
expensesOf(salesM, otherIncomeM, interestM, depreciationM, pbtM) ==
    RSub(RSub(RSub(RAdd(salesM, otherIncomeM), interestM), depreciationM), pbtM)

buildScreenerRow(quarterLabel, salesU, expensesU, otherIncomeU, interestU, depreciationU, pbtU, taxU, netProfitU, eps) ==
    ("Quarter" :> quarterLabel) @@
    ("Sales" :> rnd(salesU)) @@
    ("Expenses" :> rnd(expensesU)) @@
    ("Operating Profit" :> rnd(RSub(salesU, expensesU))) @@
    ("OPM %" :> rnd(IF salesU # <<0>>
                    THEN RMul(RDiv(RSub(salesU, expensesU), salesU), <<100>>)
                    ELSE <<0>>)) @@
    ("Other Income" :> rnd(otherIncomeU)) @@
    ("Interest" :> rnd(interestU)) @@
    ("Depreciation" :> rnd(depreciationU)) @@
    ("Profit before tax" :> rnd(pbtU)) @@
    ("Tax %" :> rnd(IF RLt(<<0>>, pbtU) THEN RMul(RDiv(taxU, pbtU), <<100>>)
                    ELSE <<0>>)) @@
    ("Net Profit" :> rnd(netProfitU)) @@
    ("EPS in Rs" :> toFixed2(eps))

\* item.quarter when there is one (the fetcher always sets it)
quarterLabelFromItem(it) == IF "quarter" \in DOMAIN it THEN it.quarter ELSE "Unknown"

\* the Screener-style row of one fetched result, in Rs crore
screenerRowOf(it, rows) ==
    buildScreenerRow(
        quarterLabelFromItem(it),
        millionToCrore(getValueByLabels(rows, "SALES")),
        millionToCrore(expensesOf(getValueByLabels(rows, "SALES"),
                                  getValueByLabels(rows, "OTHER_INCOME"),
                                  absVal(getValueByLabels(rows, "FINANCE_COSTS")),
                                  absVal(getValueByLabels(rows, "DEPRECIATION")),
                                  getValueByLabels(rows, "PBT"))),
        millionToCrore(getValueByLabels(rows, "OTHER_INCOME")),
        millionToCrore(absVal(getValueByLabels(rows, "FINANCE_COSTS"))),
        millionToCrore(absVal(getValueByLabels(rows, "DEPRECIATION"))),
        millionToCrore(getValueByLabels(rows, "PBT")),
        millionToCrore(taxOf(rows)),
        millionToCrore(getValueByLabels(rows, "NET_PROFIT")),
        epsOf(rows))

\* parseStockConsolidated(inputJson).rows; an item without rows is parsed as []
parseStockConsolidated(rs) ==
    [k \in 1..Len(rs) |->
        screenerRowOf(rs[k], IF "rows" \in DOMAIN rs[k] THEN rs[k].rows ELSE <<>>)]

RECURSIVE insertNumber(_, _)
\* seq, ascending, with x at its place
insertNumber(seq, x) ==
    IF seq = <<>> THEN <<x>>
    ELSE IF RLt(x, Head(seq)) THEN <<x>> \o seq
    ELSE <<Head(seq)>> \o insertNumber(Tail(seq), x)

RECURSIVE sortNumbers(_)
\* nums.slice().sort((x, y) => x - y)
sortNumbers(nums) ==
    IF nums = <<>> THEN <<>>
    ELSE insertNumber(sortNumbers(SubSeq(nums, 1, Len(nums) - 1)), nums[Len(nums)])

\* the middle of the sorted finite numbers; a is 0-based in the code
medianOfSorted(a) ==
    IF Len(a) = 0 THEN <<0>>
    ELSE IF Len(a) % 2 = 1 THEN a[(Len(a) \div 2) + 1]
    ELSE RDiv(RAdd(a[Len(a) \div 2], a[(Len(a) \div 2) + 1]), <<2>>)

\* the median of nums.filter(Number.isFinite)
_median(nums) == medianOfSorted(sortNumbers(SelectSeq(nums, IsFinite)))

RECURSIVE sumNumbers(_)
sumNumbers(a) == IF a = <<>> THEN <<0>> ELSE RAdd(Head(a), sumNumbers(Tail(a)))

meanOfFinite(a) == IF Len(a) > 0 THEN RDiv(sumNumbers(a), <<Len(a)>>) ELSE <<0>>

\* the mean of nums.filter(Number.isFinite)
_mean(nums) == meanOfFinite(SelectSeq(nums, IsFinite))

\* the window size computeSmoothEPS asks for
SmoothWindow == 6

\* the window of row i when the end of the series is not looked at
_rollingWindowBoundsPastEnd(i, n, win) ==
    IF n <= 0 THEN <<0, -1>>
    ELSE IF win <= 1 THEN <<i, i>>
    ELSE IF i >= win - 1 THEN <<i - (win - 1), i>>
    ELSE <<0, win - 1>>

\* [start, end] of the window of row i, 0-based as in the code
_rollingWindowBounds(i, n, win) ==
    IF n <= 0 THEN <<0, -1>>
    ELSE IF win <= 1 THEN <<i, i>>
    ELSE IF i >= win - 1 THEN <<i - (win - 1), i>>
    ELSE <<0, IF n - 1 < win - 1 THEN n - 1 ELSE win - 1>>

\* win.map(r => Number(r[key]))
seriesOf(win, key) == [k \in 1..Len(win) |-> NumberOf(win[k], key)]

CRORE_TO_RS == 10000000

\* Number.isFinite(x) ? x : 0
finiteOrZero(x) == IF IsFinite(x) THEN x ELSE <<0>>

\* epsSmooth of a row from its operating profit and the statistics of its window
epsSmoothOf(op, medOtherIncome, medDep, medInt, avgTaxPct, totalShares) ==
    IF totalShares # Null /\ RLt(<<0>>, totalShares)
    THEN toFixed2(RDiv(
             RMul(RMul(RSub(RSub(RAdd(finiteOrZero(op), medOtherIncome), medDep), medInt),
                       <<CRORE_TO_RS>>),
                  RSub(<<1>>, RDiv(finiteOrZero(avgTaxPct), <<100>>))),
             totalShares))
    ELSE Null

\* the row with its "EPS smooth in Rs", from its window [start, end] (0-based)
smoothRow(row, rows, bounds, totalShares) ==
    With(row, "EPS smooth in Rs",
         epsSmoothOf(NumberOf(row, "Operating Profit"),
                     _median(seriesOf(SubSeq(rows, bounds[1] + 1, bounds[2] + 1), "Other Income")),
                     _median(seriesOf(SubSeq(rows, bounds[1] + 1, bounds[2] + 1), "Depreciation")),
                     _median(seriesOf(SubSeq(rows, bounds[1] + 1, bounds[2] + 1), "Interest")),
                     _mean(seriesOf(SubSeq(rows, bounds[1] + 1, bounds[2] + 1), "Tax %")),
                     totalShares))

\* computeSmoothEPS(rows, totalShares).rowsWithSmooth
computeSmoothEPS(rows, totalShares) ==
    [i \in 1..Len(rows) |->
        smoothRow(rows[i], rows, _rollingWindowBounds(i - 1, Len(rows), SmoothWindow),
                  totalShares)]

\* fetchedShares || null
sharesToUse(fetchedShares) ==
    IF fetchedShares = Null \/ fetchedShares = <<0>> THEN Null ELSE fetchedShares

\* parseStockConsolidatedWithSmooth(inputJson).rowsWithSmooth
parseStockConsolidatedWithSmooth(rs, fetchedShares) ==
    computeSmoothEPS(parseStockConsolidated(rs), sharesToUse(fetchedShares))

----------------------------------------------------------------------------
(* bse_quarterly_results_parser.js: label lookup and the parser's functions on their own *)

\* the label strings met here, as sequences of characters
LblNetSales == <<"N", "e", "t", " ", "S", "a", "l", "e", "s">>

LblSales == <<"S", "a", "l", "e", "s">>

LblSalesUpper == <<"S", "A", "L", "E", "S">>

LblSalesReturns ==
    <<"S", "a", "l", "e", "s", " ", "r", "e", "t", "u", "r", "n", "s">>

LblTax == <<"T", "a", "x">>

LblTaxExpense == <<"T", "a", "x", " ", "e", "x", "p", "e", "n", "s", "e">>

LblCurrentTax == <<"C", "u", "r", "r", "e", "n", "t", " ", "t", "a", "x">>

LblOtherIncome == <<"O", "t", "h", "e", "r", " ", "I", "n", "c", "o", "m", "e">>

Raw1234 == <<"1", ",", "2", "3", "4", ".", "5">>

RawDash == <<"-">>

RawMinus7 == <<"(", "-", "7", ")">>

\* s.toLowerCase()
lowerCase(s) == [k \in 1..Len(s) |-> toLowerCase(s[k])]

\* hay.includes(needle)
includes(hay, needle) ==
    \E p \in 0..(Len(hay) - Len(needle)) : SubSeq(hay, p + 1, p + Len(needle)) = needle

RECURSIVE runEnd(_, _, _)
\* the last position of the run of characters of set that starts at p, p - 1 if
\* there is none
runEnd(s, p, set) ==
    IF p <= Len(s) /\ s[p] \in set THEN runEnd(s, p + 1, set) ELSE p - 1

RECURSIVE Pow10(_)
Pow10(n) == IF n = 0 THEN 1 ELSE 10 * Pow10(n - 1)

\* parseFloat of digits with commas taken out, and of the digits after the point
digitsValue(intPart, fracPart) ==
    RAdd(<<parseInt(SelectSeq(intPart, LAMBDA c : c # ","))>>,
         Rat(parseInt(fracPart), Pow10(Len(fracPart))))

\* parseNumberLoose(v, 0) of a string or null: the first match of
\* /[+-]?\d[\d,]*\.?\d*/, the commas dropped
parseNumberLoose(v) ==
    IF v = Null THEN <<0>>
    ELSE IF \A p \in 1..Len(v) : v[p] \notin Digits THEN <<0>>
    ELSE LET p == CHOOSE p \in 1..Len(v) :
                      v[p] \in Digits /\ \A j \in 1..(p - 1) : v[j] \notin Digits
             q == runEnd(v, p, Digits \cup {","})
             f == IF q < Len(v) /\ v[q + 1] = "." THEN runEnd(v, q + 2, Digits) ELSE q
             magnitude == digitsValue(SubSeq(v, p, q), SubSeq(v, q + 2, f))
         IN  IF p > 1 /\ v[p - 1] = "-" THEN RSub(<<0>>, magnitude) ELSE magnitude

\* hit.valueNumber ?? parseNumberLoose(hit.valueRaw, 0)
valueOfHit(hit) ==
    IF Get(hit, "valueNumber") # Null THEN hit.valueNumber
    ELSE parseNumberLoose(Get(hit, "valueRaw"))

\* rows.find(r => (r.label || "").trim().toLowerCase() === l.toLowerCase()), as
\* the position of the row, 0 when there is none
findExact(rows, l) ==
    IF \A k \in 1..Len(rows) : lowerCase(trim(rows[k].label)) # lowerCase(l) THEN 0
    ELSE CHOOSE k \in 1..Len(rows) :
             /\ lowerCase(trim(rows[k].label)) = lowerCase(l)
             /\ \A j \in 1..(k - 1) : lowerCase(trim(rows[j].label)) # lowerCase(l)

\* rows.find(r => (r.label || "").toLowerCase().includes(l.toLowerCase()))
findContaining(rows, l) ==
    IF \A k \in 1..Len(rows) : ~includes(lowerCase(rows[k].label), lowerCase(l)) THEN 0
    ELSE CHOOSE k \in 1..Len(rows) :
             /\ includes(lowerCase(rows[k].label), lowerCase(l))
             /\ \A j \in 1..(k - 1) : ~includes(lowerCase(rows[j].label), lowerCase(l))

RECURSIVE exactPass(_, _)
\* the hit of the exact match pass, 0 when the loop ends without one
exactPass(rows, labels) ==
    IF labels = <<>> THEN 0
    ELSE IF findExact(rows, Head(labels)) # 0 THEN findExact(rows, Head(labels))
    ELSE exactPass(rows, Tail(labels))

RECURSIVE containsPass(_, _)
\* the hit of the loose contains pass
containsPass(rows, labels) ==
    IF labels = <<>> THEN 0
    ELSE IF findContaining(rows, Head(labels)) # 0 THEN findContaining(rows, Head(labels))
    ELSE containsPass(rows, Tail(labels))

RECURSIVE onePass(_, _)
\* one loop over the labels that takes an exact or a containing row of each
onePass(rows, labels) ==
    IF labels = <<>> THEN 0
    ELSE IF findExact(rows, Head(labels)) # 0 THEN findExact(rows, Head(labels))
    ELSE IF findContaining(rows, Head(labels)) # 0 THEN findContaining(rows, Head(labels))
    ELSE onePass(rows, Tail(labels))

\* getValueByLabels with its two passes merged into one
getValueByLabelsOnePass(rows, labels) ==
    IF onePass(rows, labels) # 0 THEN valueOfHit(rows[onePass(rows, labels)])
    ELSE <<0>>

\* getValueByLabels(rows, labels) on the label/value rows of a quarter page
getValueByLabelsOfRows(rows, labels) ==
    IF exactPass(rows, labels) # 0 THEN valueOfHit(rows[exactPass(rows, labels)])
    ELSE IF containsPass(rows, labels) # 0 THEN valueOfHit(rows[containsPass(rows, labels)])
    ELSE <<0>>

----------------------------------------------------------------------------
(* evaluator_manager.js *)

\* JSON.parse(JSON.stringify(v)) of a field: a number that is not finite comes
\* back as null
jsonValue(k, v) == IF k # "Quarter" /\ v # Null /\ ~IsFinite(v) THEN Null ELSE v

\* coerceToArray(parsed): the parser's toJSON() string, parsed
coerceToArray(rows) ==
    [i \in 1..Len(rows) |-> [k \in DOMAIN rows[i] |-> jsonValue(k, rows[i][k])]]

\* buildQuarterRows with type 'c' and smooth = true
buildQuarterRows(rs, fetchedShares) ==
    coerceToArray(parseStockConsolidatedWithSmooth(rs, fetchedShares))

\* evaluateQuarterRange on the rows built (smooth defaults to true):
\* evaluated.map((r, i) => ({ ...r, etrra_info: rows[i] }))
evaluateQuarterRange(rows) ==
    [i \in 1..Len(rows) |->
        With(computeQuarterlyGrowth(rows, TRUE)[i], "etrra_info", rows[i])]

----------------------------------------------------------------------------
(* past_result_date_eval.js *)

\* The title of an event is kept as what the regular expressions read from it:
\* its form ("Q", "FY", "Interim" or "other"), its quarter number and year, the
\* event type that follows "Earnings", and whether it says "Projected".

fiscalToQuarterLabel(qNum, fy) ==
    IF fy < 1900 THEN Null
    ELSE CASE qNum = 1 -> <<fy - 1, "Jun">>
           [] qNum = 2 -> <<fy - 1, "Sep">>
           [] qNum = 3 -> <<fy - 1, "Dec">>
           [] qNum = 4 -> <<fy, "Mar">>
           [] OTHER -> Null

resolveQuarterLabelFromTitle(title, type) ==
    IF title.projected THEN Null
    ELSE IF title.type # type THEN Null
    ELSE CASE title.form = "Q" -> fiscalToQuarterLabel(title.q, title.fy)
           [] title.form = "FY" -> fiscalToQuarterLabel(4, title.fy)
           [] title.form = "Interim" -> fiscalToQuarterLabel(2, title.fy)
           [] OTHER -> Null

\* the events whose title resolves to a quarter of the given type, in order
eventsOfType(events, type) ==
    SelectSeq(events, LAMBDA ev : resolveQuarterLabelFromTitle(ev.title, type) # Null)

\* buildEarningsIndex without its "keep first occurrence" test: the last event
\* of a quarter label is kept
buildEarningsIndexLastWins(events, type) ==
    [label \in {resolveQuarterLabelFromTitle(eventsOfType(events, type)[k].title, type) :
                   k \in 1..Len(eventsOfType(events, type))} |->
        [dateTimeRaw |->
            Get(eventsOfType(events, type)[
                    CHOOSE k \in 1..Len(eventsOfType(events, type)) :
                        /\ resolveQuarterLabelFromTitle(
                               eventsOfType(events, type)[k].title, type) = label
                        /\ \A j \in (k + 1)..Len(eventsOfType(events, type)) :
                               resolveQuarterLabelFromTitle(
                                   eventsOfType(events, type)[j].title, type) # label],
                "dateTimeRaw")]]

\* buildEarningsIndex: the first event of a quarter label is kept
buildEarningsIndex(events, type) ==
    [label \in {resolveQuarterLabelFromTitle(eventsOfType(events, type)[k].title, type) :
                   k \in 1..Len(eventsOfType(events, type))} |->
        [dateTimeRaw |->
            Get(eventsOfType(events, type)[
                    CHOOSE k \in 1..Len(eventsOfType(events, type)) :
                        /\ resolveQuarterLabelFromTitle(
                               eventsOfType(events, type)[k].title, type) = label
                        /\ \A j \in 1..(k - 1) :
                               resolveQuarterLabelFromTitle(
                                   eventsOfType(events, type)[j].title, type) # label],
                "dateTimeRaw")]]

\* the loop body of parsePastResult resetting the date of an unmatched row
datedRowResetting(row, releaseIndex, callIndex) ==
    IF isNullish(row, "Quarter") THEN row
    ELSE IF row.Quarter \in DOMAIN releaseIndex
    THEN With(row, "dateTimeRaw", releaseIndex[row.Quarter].dateTimeRaw)
    ELSE IF row.Quarter \in DOMAIN callIndex
    THEN With(row, "dateTimeRaw", callIndex[row.Quarter].dateTimeRaw)
    ELSE With(row, "dateTimeRaw", Null)

\* the row after the loop body of parsePastResult
datedRow(row, releaseIndex, callIndex) ==
    IF isNullish(row, "Quarter") THEN row
    ELSE IF row.Quarter \in DOMAIN releaseIndex
    THEN With(row, "dateTimeRaw", releaseIndex[row.Quarter].dateTimeRaw)
    ELSE IF row.Quarter \in DOMAIN callIndex
    THEN With(row, "dateTimeRaw", callIndex[row.Quarter].dateTimeRaw)
    ELSE IF "dateTimeRaw" \notin DOMAIN row THEN With(row, "dateTimeRaw", Null)
    ELSE row

\* outJson after parsePastResult(companyInfoJson, outJson)
parsePastResult(events, rows) ==
    [i \in 1..Len(rows) |->
        datedRow(rows[i], buildEarningsIndex(events, "Release"),
                 buildEarningsIndex(events, "Call"))]

----------------------------------------------------------------------------
(* Inputs of the pipeline *)

\* the longest range requested, in quarters
MaxQuarters == 2

RECURSIVE quarterAfter(_, _)
\* the quarter k quarters after yq
quarterAfter(yq, k) == IF k = 0 THEN yq ELSE quarterAfter(nextQuarter(yq), k - 1)

\* { from, to }: the ranges of up to MaxQuarters quarters that start at 2019-Dec
\* or 2020-Mar, and one with to < from
Requests ==
    {[from |-> f, to |-> quarterAfter(f, k)] :
         f \in {<<2019, 4>>, <<2020, 1>>}, k \in 0..(MaxQuarters - 1)}
        \cup {[from |-> <<2020, 1>>, to |-> <<2019, 4>>]}

\* the result pages, in Rs million: a profitable quarter, and a loss-making one
\* with its tax in two lines and only a diluted EPS
Pages ==
    { [SALES |-> <<500>>, OTHER_INCOME |-> <<20>>, FINANCE_COSTS |-> <<-10>>,
       DEPRECIATION |-> <<30>>, PBT |-> <<100>>, TAX_TOTAL |-> <<25>>,
       NET_PROFIT |-> <<75>>, EPS_BAS |-> <<7, 2>>],
      [SALES |-> <<615>>, FINANCE_COSTS |-> <<40>>, DEPRECIATION |-> <<50>>,
       PBT |-> <<-60>>, TAX_CURRENT |-> <<4>>, TAX_DEFERRED |-> <<2>>,
       NET_PROFIT |-> <<-66>>, EPS_DIL |-> <<-3>>] }

\* an event of pastEvents.events
Event(form, q, fy, type, projected, dateTimeRaw) ==
    [title |-> [form |-> form, q |-> q, fy |-> fy, type |-> type,
                projected |-> projected],
     dateTimeRaw |-> dateTimeRaw]

Company(nseSymbol, msCode, info, totalShares) ==
    [nseSymbol |-> nseSymbol, msCode |-> msCode, info |-> info,
     totalShares |-> totalShares]

\* What runPipeline and the parser find about the company: nothing; a symbol
\* only; a symbol and a code without info file; an info file with
\* "Q4 2020 Projected Earnings Release", "Q3 2020 Earnings Release" twice,
\* "FY 2020 Earnings Call" and a "Q1 2021 Earnings Release" that has no date; one
\* with "Annual General Meeting" and "Q4 2020 Earnings Release"; one whose events
\* are not a list; and a blank symbol.
Companies ==
    { Company(<<>>, <<>>, Null, Null),
      Company(<<"H", "C", "L", "T", "E", "C", "H">>, <<>>, Null, Null),
      Company(<<"H", "C", "L", "T", "E", "C", "H">>, <<"H", "C", "L">>, Null,
              <<10000000>>),
      Company(<<"H", "C", "L", "T", "E", "C", "H">>, <<"H", "C", "L">>,
              [iterable |-> TRUE,
               events |-> <<Event("Q", 4, 2020, "Release", TRUE, RawToday),
                            Event("Q", 3, 2020, "Release", FALSE, Raw20200507),
                            Event("Q", 3, 2020, "Release", FALSE, RawBadDay),
                            Event("FY", 0, 2020, "Call", FALSE, Raw20210507),
                            [title |-> [form |-> "Q", q |-> 1, fy |-> 2021,
                                        type |-> "Release", projected |-> FALSE]]>>],
              <<10000000>>),
      Company(<<"H", "C", "L", "T", "E", "C", "H">>, <<"H", "C", "L">>,
              [iterable |-> TRUE,
               events |-> <<Event("other", 0, 0, "Release", FALSE, RawToday),
                            Event("Q", 4, 2020, "Release", FALSE, Raw20200507)>>],
              <<20000000>>),
      Company(<<"H", "C", "L", "T", "E", "C", "H">>, <<"H", "C", "L">>,
              [iterable |-> FALSE, events |-> <<>>], <<0>>),
      Company(<<" ">>, <<>>, Null, Null) }

\* getPriceAt has a close on every day it may have one; only on 2020-04-28; on
\* every such day but throws on 2020-05-07
PipelineMarkets ==
    {m \in Markets :
        \/ \A d \in MarketDays : m[d] = "close"
        \/ \A d \in MarketDays : m[d] = (IF d = <<2020, 4, 28>> THEN "close" ELSE "none")
        \/ \A d \in MarketDays : m[d] = (IF d = <<2020, 5, 7>> THEN "throw" ELSE "close")}

MaxLabelRows == 3

MaxSeries == 8

MaxBankQuarters == 2

\* a row of a result page as extractRowsFromTable builds it: the label cleaned,
\* valueNumber null when the cell is not a plain number
LabelRow(label, valueRaw, valueNumber) ==
    [label |-> label, valueRaw |-> valueRaw, valueNumber |-> valueNumber]

LabelRowPool ==
    { LabelRow(LblSales, Null, <<100>>), LabelRow(LblSalesUpper, Null, <<101>>),
      LabelRow(LblNetSales, Null, <<102>>), LabelRow(LblSalesReturns, RawMinus7, Null),
      LabelRow(LblCurrentTax, Null, <<3>>), LabelRow(LblTax, RawDash, Null),
      LabelRow(LblTaxExpense, Raw1234, Null), LabelRow(LblOtherIncome, Null, <<9>>) }

\* candidate lists in priority order, taken from LABELS.SALES, LABELS.TAX_TOTAL
\* and LABELS.TAX_CURRENT
LabelLists == {<<LblNetSales, LblSales>>, <<LblTax, LblTaxExpense>>, <<LblCurrentTax>>}

LabelCalls ==
    [fn : {"getValueByLabels"},
     rows : UNION {[1..n -> LabelRowPool] : n \in 0..MaxLabelRows},
     labels : LabelLists]

\* the EPS rows of a page: each family absent, or present with a value
EpsPages ==
    UNION {[fams -> {<<0>>, <<5, 2>>, <<-1>>}] : fams \in SUBSET {"EPS_BAS", "EPS_DIL"}}

EpsCalls == [fn : {"eps"}, rows : EpsPages]

\* every index of every series of up to MaxSeries rows
WindowCalls ==
    {[fn |-> "_rollingWindowBounds", i |-> c[2], n |-> c[1]] :
         c \in {c \in (1..MaxSeries) \X (0..(MaxSeries - 1)) : c[2] < c[1]}}

\* the result pages of a bank, in Rs million: interest earned and expended match
\* no label of LABELS.SALES or LABELS.FINANCE_COSTS
BankPages ==
    { [OTHER_INCOME |-> <<50>>, PBT |-> <<200>>, TAX_TOTAL |-> <<50>>,
       NET_PROFIT |-> <<150>>, EPS_BAS |-> <<12>>],
      [OTHER_INCOME |-> <<80>>, DEPRECIATION |-> <<10>>, PBT |-> <<400>>,
       TAX_TOTAL |-> <<100>>, NET_PROFIT |-> <<300>>, EPS_BAS |-> <<49, 2>>] }

\* the fetched results of the first n quarters from 2019 Q4 on
BankResults(pages) ==
    [k \in 1..Len(pages) |-> quarterResult(quarterAfter(<<2019, 4>>, k - 1), "page", pages[k])]

SmoothCalls ==
    [fn : {"parseStockConsolidatedWithSmooth"},
     results : {BankResults(p) : p \in UNION {[1..n -> BankPages] : n \in 1..MaxBankQuarters}},
     totalShares : {Null, <<10000000>>, <<20000000>>}]

ParserInit ==
    /\ fnCall \in LabelCalls \cup EpsCalls \cup WindowCalls \cup SmoothCalls
    /\ fnResult = <<>>
    /\ fpc = "input"
    /\ GrowthIdle
    /\ PerfIdle
    /\ PriceIdle
    /\ PipeIdle
    /\ DateIdle
    /\ BulkIdle

\* getValueByLabels(rows, labels)
LookUpLabels ==
    /\ fpc = "input"
    /\ fnCall.fn = "getValueByLabels"
    /\ fnResult' = getValueByLabelsOfRows(fnCall.rows, fnCall.labels)
    /\ fpc' = "done"
    /\ UNCHANGED <<fnCall, growthVars, perfVars, priceVars, pipeVars, dateVars>>
    /\ UNCHANGED bulkVars

\* the eps of parseStockConsolidated for the rows of a page
ChooseEps ==
    /\ fpc = "input"
    /\ fnCall.fn = "eps"
    /\ fnResult' = epsOf(fnCall.rows)
    /\ fpc' = "done"
    /\ UNCHANGED <<fnCall, growthVars, perfVars, priceVars, pipeVars, dateVars>>
    /\ UNCHANGED bulkVars

\* _rollingWindowBounds(i, n, 6)
BoundWindow ==
    /\ fpc = "input"
    /\ fnCall.fn = "_rollingWindowBounds"
    /\ fnResult' = _rollingWindowBounds(fnCall.i, fnCall.n, SmoothWindow)
    /\ fpc' = "done"
    /\ UNCHANGED <<fnCall, growthVars, perfVars, priceVars, pipeVars, dateVars>>
    /\ UNCHANGED bulkVars

\* parseStockConsolidatedWithSmooth(inputJson, { totalShares }).rowsWithSmooth
SmoothEps ==
    /\ fpc = "input"
    /\ fnCall.fn = "parseStockConsolidatedWithSmooth"
    /\ fnResult' = parseStockConsolidatedWithSmooth(fnCall.results, fnCall.totalShares)
    /\ fpc' = "done"
    /\ UNCHANGED <<fnCall, growthVars, perfVars, priceVars, pipeVars, dateVars>>
    /\ UNCHANGED bulkVars

ParserNext == LookUpLabels \/ ChooseEps \/ BoundWindow \/ SmoothEps

SpecParser == ParserInit /\ [][ParserNext]_vars

----------------------------------------------------------------------------
(* Inputs of date attachment, and parsePastResult on its own *)

\* the most events of a company info file
MaxEvents == 3

\* the most records handed to parsePastResult
MaxDateRows == 2

\* "Q3 2020 Earnings Release" (2019-Dec) dated 07/05/2020, dated 32/05/2020 and
\* without a date; the same title Projected; "Q3 2020 Earnings Call";
\* "Interim 2020 Earnings Release" (2019-Sep); "FY 2020 Earnings Call" (2020-Mar)
EventPool ==
    { Event("Q", 3, 2020, "Release", FALSE, Raw20200507),
      Event("Q", 3, 2020, "Release", FALSE, RawBadDay),
      [title |-> [form |-> "Q", q |-> 3, fy |-> 2020, type |-> "Release",
                  projected |-> FALSE]],
      Event("Q", 3, 2020, "Release", TRUE, RawToday),
      Event("Q", 3, 2020, "Call", FALSE, Raw20210507),
      Event("FY", 0, 2020, "Call", FALSE, RawToday) }

EventLists == UNION {[1..n -> EventPool] : n \in 0..MaxEvents}

\* records with and without a Quarter, whose dateTimeRaw is undefined, null or
\* already a string
DateRowPool ==
    { [Quarter |-> <<2019, "Dec">>, Sales |-> <<5>>],
      [Quarter |-> <<2019, "Dec">>, Sales |-> <<5>>, dateTimeRaw |-> Null],
      [Quarter |-> <<2019, "Dec">>, Sales |-> <<5>>, dateTimeRaw |-> RawToday],
      [Quarter |-> <<2020, "Mar">>, Sales |-> <<6>>],
      [Quarter |-> <<2020, "Mar">>, Sales |-> <<6>>, dateTimeRaw |-> Raw20210507],
      [Sales |-> <<7>>] }

DateRowArrays == UNION {[1..n -> DateRowPool] : n \in 1..MaxDateRows}

DateInit ==
    /\ dateRows \in DateRowArrays
    /\ dateEvents \in EventLists
    /\ datedOut = <<>>
    /\ dpc = "input"
    /\ GrowthIdle
    /\ PerfIdle
    /\ PriceIdle
    /\ PipeIdle
    /\ FnIdle
    /\ BulkIdle

\* parsePastResult(companyInfoJson, outJson)
AttachDatesTo ==
    /\ dpc = "input"
    /\ datedOut' = parsePastResult(dateEvents, dateRows)
    /\ dpc' = "done"
    /\ UNCHANGED <<dateRows, dateEvents, growthVars, perfVars, priceVars, pipeVars>>
    /\ UNCHANGED <<fnVars, bulkVars>>

SpecDates == DateInit /\ [][AttachDatesTo]_vars

----------------------------------------------------------------------------
(* evaluator_manager.js: runPipeline *)

\* typeof stockCode !== "string" || !stockCode.trim()
stockCodeMissing(symbol) == trim(collapseSpaces(symbol)) = <<>>

\* parsePastStockPrice has been called
priceAttachmentBegun == pricePc # "idle"

\* parsePastStockPrice has returned or thrown: the await of runPipeline is over
priceAttachmentReturned == pricePc \in {"done", "threw"}

\* the quarter range is refused: "from" must be <= "to"
RejectRange ==
    /\ stage = "fetch"
    /\ quarterKey(request.from) > quarterKey(request.to)
    /\ stage' = "rejected"
    /\ UNCHANGED <<request, cursor, results, companyInfo, stageLog>>
    /\ UNCHANGED <<growthVars, perfVars, priceVars>>
    /\ UNCHANGED <<dateVars, fnVars, bulkVars>>

\* one iteration of the loop of fetchBseQuarterRange
FetchQuarter ==
    /\ stage = "fetch"
    /\ quarterKey(request.from) <= quarterKey(request.to)
    /\ inRange(cursor, request.to)
    /\ \/ \E page \in Pages : results' = pushResult(results, cursor, "page", page)
       \/ \E outcome \in {"notable", "throw"} :
              results' = pushResult(results, cursor, outcome, <<>>)
    /\ cursor' = nextQuarter(cursor)
    /\ UNCHANGED <<request, companyInfo, stage, stageLog>>
    /\ UNCHANGED <<growthVars, perfVars, priceVars>>
    /\ UNCHANGED <<dateVars, fnVars, bulkVars>>

\* the rest of evaluateQuarterRange once every quarter is fetched
EvaluateRange ==
    /\ stage = "fetch"
    /\ quarterKey(request.from) <= quarterKey(request.to)
    /\ ~inRange(cursor, request.to)
    /\ inputRows' = buildQuarterRows(results, companyInfo.totalShares)
    /\ smooth' = TRUE
    /\ sortedRows' = growthSeries(inputRows')
    /\ growthOut' = computeQuarterlyGrowth(inputRows', TRUE)
    /\ gpc' = "done"
    /\ outJson' = evaluateQuarterRange(inputRows')
    /\ stage' = "dates"
    /\ stageLog' = Append(stageLog, "growth")
    /\ UNCHANGED <<request, cursor, results, companyInfo>>
    /\ UNCHANGED <<market, closeCache, item, pricePc, lookup, currClose, pastClose,
                   lookupLog, callLog>>
    /\ UNCHANGED perfVars
    /\ UNCHANGED <<dateVars, fnVars, bulkVars>>

\* parsePastResult(companyInfoJson, out); what it throws is swallowed
AttachDates ==
    /\ stage = "dates"
    /\ companyInfo.msCode # <<>>
    /\ companyInfo.info # Null
    /\ outJson' = IF companyInfo.info.iterable
                  THEN parsePastResult(companyInfo.info.events, outJson)
                  ELSE outJson
    /\ stage' = "prices"
    /\ stageLog' = Append(stageLog, "dates")
    /\ UNCHANGED <<request, cursor, results, companyInfo>>
    /\ UNCHANGED <<market, closeCache, item, pricePc, lookup, currClose, pastClose,
                   lookupLog, callLog>>
    /\ UNCHANGED <<growthVars, perfVars>>
    /\ UNCHANGED <<dateVars, fnVars, bulkVars>>

\* no MarketScreener code, or no info file for it
SkipDates ==
    /\ stage = "dates"
    /\ companyInfo.msCode = <<>> \/ companyInfo.info = Null
    /\ stage' = "prices"
    /\ UNCHANGED <<request, cursor, results, companyInfo, stageLog>>
    /\ UNCHANGED <<growthVars, perfVars, priceVars>>
    /\ UNCHANGED <<dateVars, fnVars, bulkVars>>

\* parsePastStockPrice(out, nseSymbol) is called
StartPrices ==
    /\ stage = "prices"
    /\ companyInfo.nseSymbol # <<>>
    /\ IF stockCodeMissing(companyInfo.nseSymbol)
       THEN pricePc' = "threw" /\ item' = item
       ELSE pricePc' = "item" /\ item' = 1
    /\ currClose' = Null
    /\ pastClose' = Null
    /\ stage' = "pricing"
    /\ stageLog' = Append(stageLog, "prices")
    /\ UNCHANGED <<request, cursor, results, companyInfo>>
    /\ UNCHANGED <<outJson, market, closeCache, lookup, lookupLog, callLog>>
    /\ UNCHANGED <<growthVars, perfVars>>
    /\ UNCHANGED <<dateVars, fnVars, bulkVars>>

\* no NSE symbol
SkipPrices ==
    /\ stage = "prices"
    /\ companyInfo.nseSymbol = <<>>
    /\ stage' = "score"
    /\ UNCHANGED <<request, cursor, results, companyInfo, stageLog>>
    /\ UNCHANGED <<growthVars, perfVars, priceVars>>
    /\ UNCHANGED <<dateVars, fnVars, bulkVars>>

\* out = addPerformanceToRows(out)
ScoreRows ==
    /\ \/ stage = "pricing" /\ priceAttachmentReturned
       \/ stage = "score"
    /\ perfRows' = outJson
    /\ IF addPerformanceThrows(outJson)
       THEN perfOut' = <<>> /\ ppc' = "threw" /\ stage' = "failed"
       ELSE perfOut' = addPerformanceToRows(outJson) /\ ppc' = "done" /\ stage' = "done"
    /\ stageLog' = Append(stageLog, "scoring")
    /\ UNCHANGED <<request, cursor, results, companyInfo>>
    /\ UNCHANGED <<growthVars, priceVars>>
    /\ UNCHANGED <<dateVars, fnVars, bulkVars>>

PipeInit ==
    /\ request \in Requests
    /\ cursor = request.from
    /\ results = <<>>
    /\ companyInfo \in Companies
    /\ stage = "fetch"
    /\ stageLog = <<>>
    /\ outJson = <<>>
    /\ market \in PipelineMarkets
    /\ closeCache = <<>>
    /\ item = 0
    /\ pricePc = "idle"
    /\ lookup = <<>>
    /\ currClose = <<>>
    /\ pastClose = <<>>
    /\ lookupLog = <<>>
    /\ callLog = <<>>
    /\ GrowthIdle
    /\ PerfIdle
    /\ DateIdle
    /\ FnIdle
    /\ BulkIdle

PipeNext ==
    \/ RejectRange
    \/ FetchQuarter
    \/ EvaluateRange
    \/ AttachDates
    \/ SkipDates
    \/ StartPrices
    \/ SkipPrices
    \/ BeginItem
    \/ CachedLookup
    \/ StartSearch
    \/ Query
    \/ FinishItem
    \/ ScoreRows

SpecPipeline == PipeInit /\ [][PipeNext]_vars

----------------------------------------------------------------------------
(* bulk_eval.js, crawler.js, getLatestOutstandingShareBulk.js: the bulk drivers *)

\* the most companies of a bulk run
MaxItems == 4

\* the largest concurrency limit of a bulk run
MaxLimit == 2

Drivers == {"runPool", "runBatch", "mapPool"}

\* per company, whether its task succeeds or fails once its retries are spent
TaskOutcomes == UNION {[1..n -> {"ok", "fail"}] : n \in 0..MaxItems}

\* what is recorded for a task that ended as outcome
recorded(outcome) == IF outcome = "ok" THEN "ok" ELSE "failed"

\* a loop test that lets one task more than the limit start
mayStartOneMore(active, idx, n, limit) == active <= limit /\ idx < n

\* while (active < limit && idx < items.length)
mayStart(active, idx, n, limit) == active < limit /\ idx < n

RECURSIVE kick(_, _, _, _)
\* the while loop of kick (runPool) and of launchNext (mapPool): idx and active
\* once it has started every task it may start
kick(active, idx, n, limit) ==
    IF mayStart(active, idx, n, limit) THEN kick(active + 1, idx + 1, n, limit)
    ELSE [idx |-> idx, active |-> active]

\* the tasks after the items idx + 1 .. k.idx have been started
started(task, idx, k) ==
    [i \in DOMAIN task |-> IF i > idx /\ i <= k.idx THEN "running" ELSE task[i]]

\* every item has its result: results.length === items.length and no hole
allRecorded(res) == \A i \in DOMAIN res : res[i] # "none"

\* runPool(items, limit, worker) is called: the first kick()
RunPoolStart ==
    /\ poolPc = "init"
    /\ poolDriver = "runPool"
    /\ LET k == kick(0, 0, Len(poolOutcome), poolLimit)
       IN  /\ poolIdx' = k.idx
           /\ poolActive' = k.active
           /\ poolTask' = started(poolTask, 0, k)
    /\ poolPc' = "started"
    /\ UNCHANGED <<poolDriver, poolOutcome, poolLimit, poolResults, poolPromise>>
    /\ UNCHANGED <<growthVars, perfVars, priceVars, pipeVars, dateVars, fnVars>>
    /\ UNCHANGED <<retryVars, observerVars>>

\* runPool: the worker of item i settles and its then / catch records the result
RunPoolRecord(i) ==
    /\ poolPc = "started"
    /\ poolDriver = "runPool"
    /\ poolTask[i] = "running"
    /\ poolResults' = [poolResults EXCEPT ![i] = recorded(poolOutcome[i])]
    /\ poolTask' = [poolTask EXCEPT ![i] = "recorded"]
    /\ UNCHANGED <<poolDriver, poolOutcome, poolLimit, poolIdx, poolActive, poolPromise,
                   poolPc>>
    /\ UNCHANGED <<growthVars, perfVars, priceVars, pipeVars, dateVars, fnVars>>
    /\ UNCHANGED <<retryVars, observerVars>>

\* runPool: the finally of item i: active--, then resolve(results) or kick()
RunPoolFinally(i) ==
    /\ poolPc = "started"
    /\ poolDriver = "runPool"
    /\ poolTask[i] = "recorded"
    /\ IF allRecorded(poolResults)
       THEN /\ poolPromise' = "resolved"
            /\ poolIdx' = poolIdx
            /\ poolActive' = poolActive - 1
            /\ poolTask' = [poolTask EXCEPT ![i] = "finished"]
       ELSE LET k == kick(poolActive - 1, poolIdx, Len(poolOutcome), poolLimit)
            IN  /\ poolPromise' = poolPromise
                /\ poolIdx' = k.idx
                /\ poolActive' = k.active
                /\ poolTask' = started([poolTask EXCEPT ![i] = "finished"], poolIdx, k)
    /\ UNCHANGED <<poolDriver, poolOutcome, poolLimit, poolResults, poolPc>>
    /\ UNCHANGED <<growthVars, perfVars, priceVars, pipeVars, dateVars, fnVars>>
    /\ UNCHANGED <<retryVars, observerVars>>

\* runBatch(): each of the CONCURRENCY workers takes an item while one is left;
\* with no item at all every worker returns and Promise.all resolves
RunBatchStart ==
    /\ poolPc = "init"
    /\ poolDriver = "runBatch"
    /\ LET took == IF Len(poolOutcome) < poolLimit THEN Len(poolOutcome) ELSE poolLimit
       IN  /\ poolIdx' = took
           /\ poolActive' = took
           /\ poolTask' = [i \in DOMAIN poolTask |->
                              IF i <= took THEN "running" ELSE "waiting"]
    /\ poolPromise' = IF Len(poolOutcome) = 0 THEN "resolved" ELSE "pending"
    /\ poolPc' = "started"
    /\ UNCHANGED <<poolDriver, poolOutcome, poolLimit, poolResults>>
    /\ UNCHANGED <<growthVars, perfVars, priceVars, pipeVars, dateVars, fnVars>>
    /\ UNCHANGED <<retryVars, observerVars>>

\* runBatch: fetchOne of item i settles; its worker counts it (success++ or
\* failed++ and the error line of the symbol) and takes the next item, or
\* returns; Promise.all resolves with the last worker
RunBatchSettle(i) ==
    /\ poolPc = "started"
    /\ poolDriver = "runBatch"
    /\ poolTask[i] = "running"
    /\ poolResults' = [poolResults EXCEPT ![i] = recorded(poolOutcome[i])]
    /\ IF poolIdx < Len(poolOutcome)
       THEN /\ poolIdx' = poolIdx + 1
            /\ poolActive' = poolActive
            /\ poolTask' = [poolTask EXCEPT ![i] = "finished", ![poolIdx + 1] = "running"]
            /\ poolPromise' = poolPromise
       ELSE /\ poolIdx' = poolIdx
            /\ poolActive' = poolActive - 1
            /\ poolTask' = [poolTask EXCEPT ![i] = "finished"]
            /\ poolPromise' = IF poolActive - 1 = 0 THEN "resolved" ELSE poolPromise
    /\ UNCHANGED <<poolDriver, poolOutcome, poolLimit, poolPc>>
    /\ UNCHANGED <<growthVars, perfVars, priceVars, pipeVars, dateVars, fnVars>>
    /\ UNCHANGED <<retryVars, observerVars>>

\* the promise p after reject(e): settled promises stay as they are
rejectOf(p) == IF p = "pending" THEN "rejected" ELSE p

\* the promise p after resolve(ret)
resolveOf(p) == IF p = "pending" THEN "resolved" ELSE p

\* launchNext(): resolve(ret) when nothing is left and nothing runs, else the loop
launchNext(p, active, idx, n) == IF idx >= n /\ active = 0 THEN resolveOf(p) ELSE p

\* mapPool(items, limit, worker) is called: the first launchNext()
MapPoolStart ==
    /\ poolPc = "init"
    /\ poolDriver = "mapPool"
    /\ LET k == kick(0, 0, Len(poolOutcome), poolLimit)
       IN  /\ poolIdx' = k.idx
           /\ poolActive' = k.active
           /\ poolTask' = started(poolTask, 0, k)
    /\ poolPromise' = launchNext(poolPromise, 0, 0, Len(poolOutcome))
    /\ poolPc' = "started"
    /\ UNCHANGED <<poolDriver, poolOutcome, poolLimit, poolResults>>
    /\ UNCHANGED <<growthVars, perfVars, priceVars, pipeVars, dateVars, fnVars>>
    /\ UNCHANGED <<retryVars, observerVars>>

\* mapPool: the worker of item i settles: ret[i] is set, or reject(e); then the
\* finally: active--, launchNext()
MapPoolSettle(i) ==
    /\ poolPc = "started"
    /\ poolDriver = "mapPool"
    /\ poolPromise # "exited"
    /\ poolTask[i] = "running"
    /\ poolResults' = IF poolOutcome[i] = "ok" THEN [poolResults EXCEPT ![i] = "ok"]
                      ELSE poolResults
    /\ LET k == kick(poolActive - 1, poolIdx, Len(poolOutcome), poolLimit)
           p == IF poolOutcome[i] = "ok" THEN poolPromise ELSE rejectOf(poolPromise)
       IN  /\ poolIdx' = k.idx
           /\ poolActive' = k.active
           /\ poolTask' = started([poolTask EXCEPT ![i] = "finished"], poolIdx, k)
           /\ poolPromise' = launchNext(p, poolActive - 1, poolIdx, Len(poolOutcome))
    /\ UNCHANGED <<poolDriver, poolOutcome, poolLimit, poolPc>>
    /\ UNCHANGED <<growthVars, perfVars, priceVars, pipeVars, dateVars, fnVars>>
    /\ UNCHANGED <<retryVars, observerVars>>

\* the command line of the bulk share fetch: the rejection reaches the catch of
\* the CLI, which prints "Bulk fetch failed" and calls process.exit(2)
ProcessExit ==
    /\ poolPc = "started"
    /\ poolDriver = "mapPool"
    /\ poolPromise = "rejected"
    /\ poolPromise' = "exited"
    /\ UNCHANGED <<poolDriver, poolOutcome, poolLimit, poolIdx, poolActive, poolTask,
                   poolResults, poolPc>>
    /\ UNCHANGED <<growthVars, perfVars, priceVars, pipeVars, dateVars, fnVars>>
    /\ UNCHANGED <<retryVars, observerVars>>

PoolInit ==
    /\ poolDriver \in Drivers
    /\ poolOutcome \in TaskOutcomes
    /\ poolLimit \in 1..MaxLimit
    /\ poolIdx = 0
    /\ poolActive = 0
    /\ poolTask = [i \in DOMAIN poolOutcome |-> "waiting"]
    /\ poolResults = [i \in DOMAIN poolOutcome |-> "none"]
    /\ poolPromise = "pending"
    /\ poolPc = "init"
    /\ RetryIdle
    /\ ObserverIdle
    /\ GrowthIdle
    /\ PerfIdle
    /\ PriceIdle
    /\ PipeIdle
    /\ DateIdle
    /\ FnIdle

PoolNext ==
    \/ RunPoolStart
    \/ RunBatchStart
    \/ MapPoolStart
    \/ ProcessExit
    \/ \E i \in DOMAIN poolTask : RunPoolRecord(i)
    \/ \E i \in DOMAIN poolTask : RunPoolFinally(i)
    \/ \E i \in DOMAIN poolTask : RunBatchSettle(i)
    \/ \E i \in DOMAIN poolTask : MapPoolSettle(i)

SpecPool == PoolInit /\ [][PoolNext]_vars

----------------------------------------------------------------------------
(* crawler.js: withRetries; getLatestOutstandingShareBulk.js: withRetry *)

\* the largest retries a wrapper is called with
MaxRetries == 3

RetryWrappers == {"withRetries", "withRetry"}

\* per attempt, whether fn() resolves or throws
AttemptOutcomes(retries) == [1..(retries + 1) -> {"ok", "fail"}]

\* the milliseconds waited after the failed attempt i (from 0):
\* 1000 * attempt in withRetries, 300 * (i + 1) in withRetry
backoff(wrapper, i) == IF wrapper = "withRetries" THEN 1000 * (i + 1) ELSE 300 * (i + 1)

\* a wrapper that also waits after its last attempt
moreAlways(i, retries) == TRUE

\* const more = i < retries (withRetries); if (i < retries) (withRetry)
more(i, retries) == i < retries

\* one turn of the for loop: fn() is awaited; its value is returned, or its
\* error is kept as lastErr and the wrapper waits or, after the loop, throws it
Attempt ==
    /\ retryPc = "call"
    /\ retryCalls' = Append(retryCalls, retryI + 1)
    /\ IF retryOutcome[retryI + 1] = "ok"
       THEN /\ retryResult' = [value |-> retryI + 1]
            /\ retryPc' = "returned"
       ELSE /\ retryResult' = [error |-> retryI + 1]
            /\ retryPc' = IF more(retryI, retryLimit) THEN "wait" ELSE "threw"
    /\ UNCHANGED <<retryWrapper, retryLimit, retryOutcome, retryI, retryWaits>>
    /\ UNCHANGED <<growthVars, perfVars, priceVars, pipeVars, dateVars, fnVars>>
    /\ UNCHANGED <<poolVars, observerVars>>

\* the timer of the backoff fires: i++, and the next turn of the loop, or
\* throw lastErr when the loop is over
Backoff ==
    /\ retryPc = "wait"
    /\ retryWaits' = Append(retryWaits, backoff(retryWrapper, retryI))
    /\ retryI' = retryI + 1
    /\ retryPc' = IF retryI + 1 <= retryLimit THEN "call" ELSE "threw"
    /\ UNCHANGED <<retryWrapper, retryLimit, retryOutcome, retryCalls, retryResult>>
    /\ UNCHANGED <<growthVars, perfVars, priceVars, pipeVars, dateVars, fnVars>>
    /\ UNCHANGED <<poolVars, observerVars>>

RetryInit ==
    /\ retryWrapper \in RetryWrappers
    /\ retryLimit \in 0..MaxRetries
    /\ retryOutcome \in AttemptOutcomes(retryLimit)
    /\ retryI = 0
    /\ retryCalls = <<>>
    /\ retryWaits = <<>>
    /\ retryResult = <<>>
    /\ retryPc = "call"
    /\ PoolIdle
    /\ ObserverIdle
    /\ GrowthIdle
    /\ PerfIdle
    /\ PriceIdle
    /\ PipeIdle
    /\ DateIdle
    /\ FnIdle

RetryNext == Attempt \/ Backoff

SpecRetry == RetryInit /\ [][RetryNext]_vars

----------------------------------------------------------------------------
(* nse-integrated-filing-observer.js and getLatestNseLatestFiling.js *)

\* the most polling cycles of the observer
MaxCycles == 3

\* the keys of the filings the NSE page may come to list
FilingKeys == {"k1", "k2"}

\* a cycle that has just called getLatestNseLatestFiling: seen = loadSeen()
newCycle(file) == [pc |-> "scrape", seen |-> file, items |-> {}]

\* allRows.filter((r) => r.key && !seen.has(r.key))
newItemsOf(rows, seen) == {k \in rows : k \notin seen}

\* NSE publishes a filing: the page lists one row more
Publish(k) ==
    /\ cycles # <<>>
    /\ k \notin nsePage
    /\ nsePage' = nsePage \cup {k}
    /\ UNCHANGED <<seenFile, cycles, handed>>
    /\ UNCHANGED <<growthVars, perfVars, priceVars, pipeVars, dateVars, fnVars>>
    /\ UNCHANGED <<poolVars, retryVars>>

\* startObserver runs the first cycle and awaits it before it sets the
\* interval; after that every interval tick calls cycle(), whatever the cycles
\* before it are doing; the cycle begins getLatestNseLatestFiling with loadSeen()
Tick ==
    /\ Len(cycles) < MaxCycles
    /\ Len(cycles) = 1 => cycles[1].pc = "done"
    /\ cycles' = Append(cycles, newCycle(seenFile))
    /\ UNCHANGED <<seenFile, nsePage, handed>>
    /\ UNCHANGED <<growthVars, perfVars, priceVars, pipeVars, dateVars, fnVars>>
    /\ UNCHANGED <<poolVars, retryVars>>

\* cycle c has its page scraped: the rows not in its seen set are its new items,
\* they are added to that set and the set is written to the seen file
Scrape(c) ==
    /\ cycles[c].pc = "scrape"
    /\ LET newItems == newItemsOf(nsePage, cycles[c].seen)
       IN  /\ cycles' = [cycles EXCEPT ![c] =
                            [pc |-> IF newItems = {} THEN "done" ELSE "hand",
                             seen |-> cycles[c].seen \cup newItems,
                             items |-> newItems]]
           /\ seenFile' = IF newItems = {} THEN seenFile
                          ELSE cycles[c].seen \cup newItems
    /\ UNCHANGED <<nsePage, handed>>
    /\ UNCHANGED <<growthVars, perfVars, priceVars, pipeVars, dateVars, fnVars>>
    /\ UNCHANGED <<poolVars, retryVars>>

\* runCycle of cycle c calls onNew with its next item
Hand(c, k) ==
    /\ cycles[c].pc = "hand"
    /\ k \in cycles[c].items
    /\ handed' = [handed EXCEPT ![k] = @ + 1]
    /\ cycles' = [cycles EXCEPT ![c].items = @ \ {k},
                                ![c].pc = IF cycles[c].items = {k} THEN "done" ELSE "hand"]
    /\ UNCHANGED <<seenFile, nsePage>>
    /\ UNCHANGED <<growthVars, perfVars, priceVars, pipeVars, dateVars, fnVars>>
    /\ UNCHANGED <<poolVars, retryVars>>

ObserverInit ==
    /\ seenFile \in SUBSET FilingKeys
    /\ nsePage \in SUBSET FilingKeys
    /\ cycles = <<>>
    /\ handed = [k \in FilingKeys |-> 0]
    /\ PoolIdle
    /\ RetryIdle
    /\ GrowthIdle
    /\ PerfIdle
    /\ PriceIdle
    /\ PipeIdle
    /\ DateIdle
    /\ FnIdle

ObserverNext ==
    \/ Tick
    \/ \E k \in FilingKeys : Publish(k)
    \/ \E c \in DOMAIN cycles : Scrape(c)
    \/ \E c \in DOMAIN cycles : \E k \in FilingKeys : Hand(c, k)

SpecObserver == ObserverInit /\ [][ObserverNext]_vars

----------------------------------------------------------------------------
(* Growth Metrics Calculator: properties *)

QoqFields == {"sales_qoq_change", "sales_qoq_pct", "eps_qoq_change", "eps_qoq_pct"}

YoyFields == {"sales_yoy_change", "sales_yoy_pct", "eps_yoy_change", "eps_yoy_pct"}

\* month number of a label, and the next label of the calendar
MonthOf(q) == CASE q[2] = "Mar" -> 3 [] q[2] = "Jun" -> 6 [] q[2] = "Sep" -> 9
                [] OTHER -> 12

Before(p, q) == p[1] < q[1] \/ (p[1] = q[1] /\ MonthOf(p) < MonthOf(q))

CalendarNext(p, q) ==
    \/ p[1] = q[1] /\ MonthOf(q) = MonthOf(p) + 3
    \/ q[1] = p[1] + 1 /\ MonthOf(p) = 12 /\ MonthOf(q) = 3

\* the QoQ percentage the claim states for position i > 1, from the output series
StatedQoqPct(i) ==
    Rat((growthOut[i].Sales[1] - growthOut[i - 1].Sales[1]) * 100,
        Abs(growthOut[i - 1].Sales[1]))

\* C1 as stated: at every position after the first, sales_qoq_pct is null when the
\* preceding record's sales is 0 or null and otherwise is the number
\* (sales[i] - sales[i-1]) / |sales[i-1]| * 100; the first record's QoQ fields are null.
C1_QoqPctAsStated ==
    gpc = "done" =>
        /\ Len(growthOut) > 0 => \A f \in QoqFields : IsNull(growthOut[1][f])
        /\ \A i \in 2..Len(growthOut) :
              IF IsNull(growthOut[i - 1].Sales) \/ growthOut[i - 1].Sales = <<0>>
              THEN IsNull(growthOut[i].sales_qoq_pct)
              ELSE /\ ~IsNull(growthOut[i].sales_qoq_pct)
                   /\ ~IsNull(growthOut[i].Sales)
                   /\ growthOut[i].sales_qoq_pct = StatedQoqPct(i)

\* C1 amended: at every position after the first, sales_qoq_pct is null when the
\* preceding record's sales is 0 or null or the record's own sales is null, and
\* otherwise equals (sales[i] - sales[i-1]) / |sales[i-1]| * 100, the base being the
\* preceding record by position; the first record's QoQ fields are all null.
C1_QoqPct ==
    gpc = "done" =>
        /\ Len(growthOut) > 0 => \A f \in QoqFields : IsNull(growthOut[1][f])
        /\ \A i \in 2..Len(growthOut) :
              IF \/ IsNull(growthOut[i - 1].Sales)
                 \/ growthOut[i - 1].Sales = <<0>>
                 \/ IsNull(growthOut[i].Sales)
              THEN IsNull(growthOut[i].sales_qoq_pct)
              ELSE /\ ~IsNull(growthOut[i].sales_qoq_pct)
                   /\ growthOut[i].sales_qoq_pct = StatedQoqPct(i)

\* a series with a calendar gap whose record after the gap has a QoQ percentage
\* taken from a negative base
C1_Witness ==
    /\ gpc = "done"
    /\ \E i \in 2..Len(growthOut) :
          /\ Before(growthOut[i - 1].Quarter, growthOut[i].Quarter)
          /\ ~CalendarNext(growthOut[i - 1].Quarter, growthOut[i].Quarter)
          /\ growthOut[i - 1].Sales = <<-4>>
          /\ ~IsNull(growthOut[i].sales_qoq_pct)

HasLabel(series, q) == \E j \in 1..Len(series) : series[j].Quarter = q

\* C2: a record whose label has no record labelled {year-1}-{same month} anywhere
\* in the series has all four YoY fields null, whatever its position and neighbours.
C2_YoyNullWithoutLabel ==
    gpc = "done" =>
        \A i \in 1..Len(growthOut) :
            ~HasLabel(growthOut, <<growthOut[i].Quarter[1] - 1, growthOut[i].Quarter[2]>>)
                => \A f \in YoyFields : IsNull(growthOut[i][f])

\* a record without a year-earlier label that follows a record with usable sales
\* and EPS, in a series where another record does have its YoY fields
C2_Witness ==
    /\ gpc = "done"
    /\ \E i \in 2..Len(growthOut) :
          /\ ~HasLabel(growthOut, <<growthOut[i].Quarter[1] - 1, growthOut[i].Quarter[2]>>)
          /\ ~IsNull(growthOut[i].sales_qoq_pct)
          /\ ~IsNull(growthOut[i].eps_qoq_pct)
    /\ \E k \in 1..Len(growthOut) : ~IsNull(growthOut[k].sales_yoy_pct)

\* C3: for every input array, unsorted or with a repeated label, the series growth
\* is computed on is strictly ascending by (year, month), so it holds exactly one
\* record per quarter label.
C3_StrictlyAscendingAsStated ==
    gpc = "done" =>
        \A i \in 2..Len(sortedRows) :
            Before(sortedRows[i - 1].Quarter, sortedRows[i].Quarter)

\* the value of the first of the keys that the record has with a value, else null
FirstPresent(r, keys) ==
    IF \E k \in 1..Len(keys) : ~IsNull(Get(r, keys[k]))
    THEN r[keys[CHOOSE k \in 1..Len(keys) :
                    /\ ~IsNull(Get(r, keys[k]))
                    /\ \A j \in 1..(k - 1) : IsNull(Get(r, keys[j]))]]
    ELSE Null

----------------------------------------------------------------------------
(* Performance Scoring Engine: properties *)

\* EPS of input record i is a number <= 0
NonPositiveEps(i) ==
    /\ ~isNullish(perfRows[i], "EPS")
    /\ RLe(perfRows[i].EPS, <<0>>)

\* C4: scoring raises no exception, and every record whose EPS is zero or
\* negative has both its yoy and its qoq performance block null, whatever its
\* price and its other fields are.
C4_NonPositiveEpsNullBlocks ==
    /\ ppc # "threw"
    /\ ppc = "done" =>
          \A i \in 1..Len(perfOut) :
              NonPositiveEps(i) =>
                  /\ perfOut[i].performance.yoy = Null
                  /\ perfOut[i].performance.qoq = Null

\* { actual, ratio, score } complete, with a finite score
FullEntry(e) ==
    /\ e # Null
    /\ DOMAIN e = {"actual", "ratio", "score"}
    /\ e.actual # Null /\ e.ratio # Null /\ e.score # Null
    /\ IsFinite(e.score)

\* a fully populated block whose expected growth is stored under key
FullBlock(b, key) ==
    /\ DOMAIN b = {key, "sales", "eps", "price"}
    /\ b[key] # Null /\ IsFinite(b[key]) /\ RLt(<<0>>, b[key])
    /\ FullEntry(b.sales)
    /\ FullEntry(b.eps)
    /\ (b.price = Null \/ FullEntry(b.price))

\* C5: for every scored record, the yoy block and the qoq block are each
\* either null or fully populated (a positive expected growth, a sales entry
\* and an eps entry with finite scores, and a price sub-block that is null or
\* complete); no block holds only some of these.
C5_BlocksNullOrFull ==
    ppc = "done" =>
        \A i \in 1..Len(perfOut) :
            LET perf == perfOut[i].performance
            IN  /\ (perf.yoy = Null \/ FullBlock(perf.yoy, "expectedYoyGrowth"))
                /\ (perf.qoq = Null \/ FullBlock(perf.qoq, "expectedQoqGrowth"))

\* a scored series with a full yoy block carrying a price sub-block next to a
\* null qoq block, and a record with a missing growth field and a null yoy block
C5_Witness ==
    /\ ppc = "done"
    /\ \E i \in 1..Len(perfOut) :
          /\ perfOut[i].performance.yoy # Null
          /\ perfOut[i].performance.yoy.price # Null
          /\ perfOut[i].performance.qoq = Null
    /\ \E i \in 1..Len(perfOut) :
          /\ ~isNullish(perfRows[i], "EPS")
          /\ ~isNullish(perfRows[i], "currentDateClosePrice")
          /\ isNullish(perfRows[i], "sales_yoy_pct")
          /\ ~isNullish(perfRows[i], "eps_yoy_pct")
          /\ perfOut[i].performance.yoy = Null
          /\ perfOut[i].performance.qoq # Null

\* the close price of a record is a finite number
HasClose(r) ==
    /\ ~isNullish(r, "currentDateClosePrice")
    /\ IsFinite(r.currentDateClosePrice)

\* the earlier records of perfRows that have a close price
EarlierWithClose(i) == {j \in 1..(i - 1) : HasClose(perfRows[j])}

\* the nearest of them
NearestEarlierWithClose(i) ==
    CHOOSE j \in EarlierWithClose(i) : \A k \in EarlierWithClose(i) : k <= j

\* (curr - prevClose) / prevClose * 100 for record i
PriceQoqPctOf(i) ==
    RMul(RDiv(RSub(perfRows[i].currentDateClosePrice,
                   perfRows[NearestEarlierWithClose(i)].currentDateClosePrice),
              perfRows[NearestEarlierWithClose(i)].currentDateClosePrice),
         <<100>>)

\* C12: after scoring, a record that came without price_qoq_pct has
\* price_qoq_pct = (curr - prevClose) / prevClose * 100, prevClose being the close
\* of the nearest earlier record whose close is non-null and finite (null closes
\* are skipped), and null when there is no such record or its own close is null.
\* A prevClose of 0 is left open.
C12_PriceQoqFromNearestClose ==
    ppc = "done" =>
        \A i \in 1..Len(perfRows) :
            isNullish(perfRows[i], "price_qoq_pct") =>
                IF ~HasClose(perfRows[i]) \/ EarlierWithClose(i) = {}
                THEN perfOut[i].price_qoq_pct = Null
                ELSE perfRows[NearestEarlierWithClose(i)].currentDateClosePrice # <<0>>
                         => perfOut[i].price_qoq_pct = PriceQoqPctOf(i)

\* record i came with a positive EPS and a negative close price
NegativePriceRecord(i) ==
    /\ ~isNullish(perfRows[i], "EPS")
    /\ RLt(<<0>>, perfRows[i].EPS)
    /\ ~isNullish(perfRows[i], "currentDateClosePrice")
    /\ RLt(perfRows[i].currentDateClosePrice, <<0>>)

\* C17 as stated: scoring a record whose PE would be computed from a negative
\* price (positive EPS, negative currentDateClosePrice) raises an exception
\* instead of producing null performance blocks.
C17_NegativePriceRaises ==
    (ppc # "input" /\ \E i \in 1..Len(perfRows) : NegativePriceRecord(i))
        => ppc = "threw"

\* C17: scoring a record whose PE would be computed from a negative price
\* (positive EPS, negative currentDateClosePrice) raises no exception and
\* gives the record null yoy and qoq performance blocks and null final scores.
C17_NegativePriceNullBlocks ==
    ppc # "input" =>
        \A i \in 1..Len(perfRows) :
            NegativePriceRecord(i) =>
                /\ ppc = "done"
                /\ perfOut[i].performance.yoy = Null
                /\ perfOut[i].performance.qoq = Null
                /\ perfOut[i].performance.final_performance_score = Null
                /\ perfOut[i].performance.final_price_score = Null

\* a scored series holding a record with EPS 5 and close -100 next to a
\* record with both blocks populated
C17_Witness ==
    /\ ppc = "done"
    /\ \E i \in 1..Len(perfRows) :
          /\ NegativePriceRecord(i)
          /\ perfOut[i].performance.yoy = Null
          /\ perfOut[i].performance.qoq = Null
    /\ \E i \in 1..Len(perfRows) :
          /\ perfOut[i].performance.yoy # Null
          /\ perfOut[i].performance.qoq # Null

\* the four component scores of a performance object, missing ones null
ComponentScores(perf) ==
    << IF perf.yoy = Null THEN Null ELSE perf.yoy.sales.score,
       IF perf.yoy = Null THEN Null ELSE perf.yoy.eps.score,
       IF perf.qoq = Null THEN Null ELSE perf.qoq.sales.score,
       IF perf.qoq = Null THEN Null ELSE perf.qoq.eps.score >>

\* sign(s) * s^2
SignTimesSquare(sc) ==
    IF sc = <<0>> THEN <<0>>
    ELSE IF RLt(<<0>>, sc) THEN RMul(sc, sc)
    ELSE RMul(<<-1>>, RMul(sc, sc))

SumOfFour(c) ==
    RAdd(RAdd(SignTimesSquare(c[1]), SignTimesSquare(c[2])),
         RAdd(SignTimesSquare(c[3]), SignTimesSquare(c[4])))

\* a number of at most 4 decimals in ten-thousandths
TenThousandths(v) == Nm(v) * (10000 \div Dn(v))

\* 10^8 * (a^2 - |x|) for a and x of at most 4 decimals, a close to sqrt(|x|)
SquareGap(a, x) ==
    200 * (TenThousandths(a) \div 100) * (TenThousandths(a) % 100)
    + (TenThousandths(a) % 100) * (TenThousandths(a) % 100)
    - 10000 * (Abs(TenThousandths(x))
               - (TenThousandths(a) \div 100) * (TenThousandths(a) \div 100))

\* a is the multiple of 0.0001 nearest to sqrt(|x|), halves going up
IsSqrtTo4Decimals(a, x) ==
    /\ 10000 % Dn(a) = 0
    /\ Nm(a) >= 0
    /\ IF TenThousandths(a) = 0 THEN TenThousandths(x) = 0
       ELSE /\ SquareGap(a, x) <= TenThousandths(a) - 1
            /\ -TenThousandths(a) <= SquareGap(a, x)

InScoreRange(v) ==
    /\ v # Null
    /\ IsFinite(v)
    /\ RLe(<<-10>>, v)
    /\ RLe(v, <<10>>)

\* C19: each of the four ratio-to-score curves returns a value in [-10, +10]
\* for every ratio, negative, very large and non-finite ones included, and so
\* does the score a performance block stores for it, the value rounded to 2
\* decimals.
C19_CurvesWithinTen ==
    (fpc = "done" /\ fnCall.fn \in CurveNames) =>
        /\ InScoreRange(fnResult)
        /\ InScoreRange(scoreEntry(<<0>>, fnCall.arg, fnResult).score)

\* the QoQ curve called with -1.5, below the start of the segment it
\* interpolates on, returns -10
C19_Witness ==
    /\ fpc = "done"
    /\ fnCall.fn = "ratioToQoqScore"
    /\ fnCall.arg = <<-3, 2>>
    /\ fnResult = <<-10>>

\* the bands of the PE table below the infinite one
FiniteBands == 1..(Len(PE_GROWTH_TABLE) - 1)

\* C20: estimateGrowth is continuous across every band boundary of the PE
\* table: at each boundary PE its value equals both the yoy_max of the band
\* below and the yoy_min of the band above (estimateGrowth(10) = 8,
\* estimateGrowth(200) = 70), a hundredth below the boundary it is within a
\* hundredth of that value, and it is exactly 70 for every PE in the infinite
\* band.
C20_ContinuousAtBoundaries ==
    (fpc = "done" /\ fnCall.fn = "estimateGrowth") =>
        /\ \A k \in FiniteBands :
              /\ fnCall.arg = PE_GROWTH_TABLE[k].pe_max =>
                    /\ fnResult = PE_GROWTH_TABLE[k].yoy_max
                    /\ fnResult = PE_GROWTH_TABLE[k + 1].yoy_min
              /\ fnCall.arg = RSub(PE_GROWTH_TABLE[k].pe_max, <<1, 100>>) =>
                    /\ RLe(RSub(PE_GROWTH_TABLE[k].yoy_max, <<1, 100>>), fnResult)
                    /\ RLe(fnResult, PE_GROWTH_TABLE[k].yoy_max)
        /\ fnCall.arg = <<10>> => fnResult = <<8>>
        /\ fnCall.arg = <<200>> => fnResult = <<70>>
        /\ RLe(<<200>>, fnCall.arg) => fnResult = <<70>>

\* estimateGrowth(200) has returned 70
C20_Witness ==
    /\ fpc = "done"
    /\ fnCall.fn = "estimateGrowth"
    /\ fnCall.arg = <<200>>
    /\ fnResult = <<70>>

----------------------------------------------------------------------------
(* Date/Price Reconciliation: properties *)

PriceFieldNames == {"currentDateClosePrice", "pastYearDateClosePrice", "price_yoy_pct"}

\* the three price fields of record j are there and null
AllPriceFieldsNull(j) ==
    \A k \in PriceFieldNames : k \in DOMAIN outJson[j] /\ outJson[j][k] = Null

\* the logged getCachedNearestClose calls made for record j
LookupsOf(j) == {n \in 1..Len(lookupLog) : lookupLog[n].item = j}

\* both lookups of record f went to the collaborator, which answered none of
\* their calls with a close
CollaboratorFailedFor(f) ==
    /\ \E n \in LookupsOf(f) : lookupLog[n].which = "current"
    /\ \E n \in LookupsOf(f) : lookupLog[n].which = "past"
    /\ \A n \in LookupsOf(f) : ~lookupLog[n].hit /\ lookupLog[n].close = Null
    /\ \A n \in 1..Len(callLog) : callLog[n].item = f => callLog[n].answer # "close"

\* record j has the closes the collaborator resolves for its two dates
ReceivesResolvedPrices(j) ==
    LET iso == parseDDMMYYYYtoISO(outJson[j])
    IN  iso # Null =>
          /\ outJson[j].currentDateClosePrice =
                 getNearestClose(market, iso, CurrentBackDays).close
          /\ outJson[j].pastYearDateClosePrice =
                 getNearestClose(market, pastYearDate(iso), PastYearBackDays).close

\* record j still has the fields it came with
KeepsGrowthFields(j) ==
    \A k \in DOMAIN datedRecord(Null, j) :
        k \in DOMAIN outJson[j] /\ outJson[j][k] = datedRecord(outJson[j].dateTimeRaw, j)[k]

\* C6: after price attachment every record keeps its growth fields, and when the
\* collaborator throws or returns nothing for every call made for one record,
\* that record's price fields are null and every other record has the closes the
\* collaborator resolves for it.
C6_FailureIsolated ==
    pricePc = "done" =>
        /\ \A j \in 1..Len(outJson) : KeepsGrowthFields(j)
        /\ \A f \in 1..Len(outJson) :
              CollaboratorFailedFor(f) =>
                  /\ AllPriceFieldsNull(f)
                  /\ \A j \in 1..Len(outJson) : j # f => ReceivesResolvedPrices(j)

\* some lookup made for record j did not resolve
SomeLookupFailed(j) == \E n \in LookupsOf(j) : lookupLog[n].close = Null

\* C10 as stated: after price attachment a record whose dateTimeRaw cannot be
\* parsed, or one of whose two lookups did not resolve, has all three price
\* fields null.
C10_AllNullOnAnyFailure ==
    pricePc = "done" =>
        \A j \in 1..Len(outJson) :
            (parseDDMMYYYYtoISO(outJson[j]) = Null \/ SomeLookupFailed(j))
                => AllPriceFieldsNull(j)

\* C10 amended: after price attachment a record whose dateTimeRaw cannot be
\* parsed ("Today", null, a day above 31) has all three price fields null and no
\* lookup was made for it; for any other record each close field holds what its
\* own lookup returned (null when that lookup did not resolve), and
\* price_yoy_pct is null when either lookup did not resolve.
C10_NullPerFailedLookup ==
    pricePc = "done" =>
        \A j \in 1..Len(outJson) :
            /\ outJson[j].dateTimeRaw \in {RawToday, RawBadDay, Null} =>
                  AllPriceFieldsNull(j) /\ LookupsOf(j) = {}
            /\ \A n \in LookupsOf(j) :
                  /\ lookupLog[n].which = "current" =>
                        outJson[j].currentDateClosePrice = lookupLog[n].close
                  /\ lookupLog[n].which = "past" =>
                        outJson[j].pastYearDateClosePrice = lookupLog[n].close
            /\ SomeLookupFailed(j) => outJson[j].price_yoy_pct = Null

\* a finished run with a "Today" record, and a record whose current-date lookup
\* resolved while its prior-year lookup did not
C10_Witness ==
    /\ pricePc = "done"
    /\ \E j \in 1..Len(outJson) :
          outJson[j].dateTimeRaw = RawToday /\ AllPriceFieldsNull(j)
    /\ \E j \in 1..Len(outJson) :
          /\ outJson[j].currentDateClosePrice # Null
          /\ outJson[j].pastYearDateClosePrice = Null
          /\ outJson[j].price_yoy_pct = Null
          /\ SomeLookupFailed(j)

\* the logged getPriceAt calls made for the lookup w of record j
QueriesOf(j, w) ==
    {n \in 1..Len(callLog) : callLog[n].item = j /\ callLog[n].which = w}

\* the number of the day in the proleptic Gregorian calendar
DayNumber(date) ==
    LET y == IF date[2] <= 2 THEN date[1] - 1 ELSE date[1]
        mp == IF date[2] > 2 THEN date[2] - 3 ELSE date[2] + 9
    IN  365 * y + (y \div 4) - (y \div 100) + (y \div 400) + ((153 * mp + 2) \div 5)
            + date[3]

\* the queries of the finished lookup lookupLog[n] start at its date, go back one
\* calendar day at a time, stop at the first that resolves, and the lookup
\* returned that close, or null after `most` queries without one
SearchedBackward(n, most) ==
    LET qs == QueriesOf(lookupLog[n].item, lookupLog[n].which)
    IN  /\ qs # {}
        /\ \A q \in qs :
              /\ (q - 1 \in qs) =>
                     DayNumber(callLog[q].date) = DayNumber(callLog[q - 1].date) - 1
              /\ (q - 1 \notin qs) => callLog[q].date = lookupLog[n].isoDate
              /\ (q + 1 \in qs) => callLog[q].answer # "close"
              /\ (q + 1 \notin qs) =>
                     IF callLog[q].answer = "close"
                     THEN lookupLog[n].close = ClosePrice[callLog[q].date]
                     ELSE lookupLog[n].close = Null /\ Cardinality(qs) = most

\* C11 as stated: a current-date lookup queries the collaborator at most 7 times
\* and a prior-year lookup at most 10 times.
C11_AtMost7And10Queries ==
    \A j \in 1..Len(outJson) :
        /\ Cardinality(QueriesOf(j, "current")) <= 7
        /\ Cardinality(QueriesOf(j, "past")) <= 10

\* C11 amended: a current-date lookup queries the collaborator at most 8 times
\* and a prior-year lookup at most 11 times (the date itself and up to 7, or 10,
\* earlier days), each query one calendar day before the previous one, and the
\* lookup returns the close of the first query that resolves, null if none does.
C11_AtMost8And11Queries ==
    /\ \A j \in 1..Len(outJson) :
          /\ Cardinality(QueriesOf(j, "current")) <= 8
          /\ Cardinality(QueriesOf(j, "past")) <= 11
    /\ \A n \in 1..Len(lookupLog) :
          ~lookupLog[n].hit =>
              SearchedBackward(n, IF lookupLog[n].which = "current" THEN 8 ELSE 11)

\* a current-date lookup that gave up after 8 queries, and a prior-year lookup
\* that resolved on its 10th query, nine days back, across a month end
C11_Witness ==
    /\ \E n \in 1..Len(lookupLog) :
          /\ lookupLog[n].which = "current" /\ ~lookupLog[n].hit
          /\ lookupLog[n].close = Null
          /\ Cardinality(QueriesOf(lookupLog[n].item, "current")) = 8
    /\ \E n \in 1..Len(lookupLog) :
          /\ lookupLog[n].which = "past" /\ ~lookupLog[n].hit
          /\ lookupLog[n].close # Null
          /\ Cardinality(QueriesOf(lookupLog[n].item, "past")) = 10

\* C13: once a lookup for a date has completed, every later lookup for the same
\* symbol and date makes no call to the collaborator and returns what the first
\* one returned; a lookup answered without a call has such an earlier lookup.
C13_RepeatedLookupFromCache ==
    \A m \in 1..Len(lookupLog) :
        /\ \A n \in 1..(m - 1) :
              lookupLog[n].isoDate = lookupLog[m].isoDate =>
                  /\ lookupLog[m].hit
                  /\ lookupLog[m].close = lookupLog[n].close
                  /\ QueriesOf(lookupLog[m].item, lookupLog[m].which) = {}
        /\ lookupLog[m].hit =>
              \E n \in 1..(m - 1) : lookupLog[n].isoDate = lookupLog[m].isoDate

\* a resolved close and an unresolved lookup were each asked for again, by
\* another record, and the repeated lookups were answered
C13_Witness ==
    /\ \E n, m \in 1..Len(lookupLog) :
          /\ n < m /\ lookupLog[n].item # lookupLog[m].item
          /\ lookupLog[n].isoDate = lookupLog[m].isoDate
          /\ lookupLog[n].close # Null
    /\ \E n, m \in 1..Len(lookupLog) :
          /\ n < m /\ lookupLog[n].item # lookupLog[m].item
          /\ lookupLog[n].isoDate = lookupLog[m].isoDate
          /\ lookupLog[n].close = Null
          /\ callLog # <<>>

\* lookup w of record j has completed
Completed(j, w) ==
    \E n \in 1..Len(lookupLog) : lookupLog[n].item = j /\ lookupLog[n].which = w

\* a getCachedNearestClose call is under way
LookupUnderWay == pricePc \in {"lookup", "search"}

\* C14: the one lookup under way is that of the current record; it started after
\* both lookups of every earlier record with a date had completed, and a
\* prior-year lookup after the record's current-date lookup; every call to the
\* collaborator was made for the lookup under way or for one that has completed,
\* and lookups and calls are logged record by record, current before prior-year.
C14_OneLookupAtATime ==
    /\ LookupUnderWay =>
          /\ ~Completed(item, lookup.which)
          /\ lookup.which = "past" => Completed(item, "current")
          /\ lookup.which = "current" => ~Completed(item, "past")
          /\ \A j \in 1..(item - 1) :
                parseDDMMYYYYtoISO(outJson[j]) # Null =>
                    Completed(j, "current") /\ Completed(j, "past")
          /\ \A n \in 1..Len(lookupLog) : lookupLog[n].item <= item
    /\ \A q \in 1..Len(callLog) :
          \/ Completed(callLog[q].item, callLog[q].which)
          \/ /\ pricePc = "search"
             /\ callLog[q].item = item
             /\ callLog[q].which = lookup.which
    /\ \A n, m \in 1..Len(lookupLog) :
          n < m =>
              \/ lookupLog[n].item < lookupLog[m].item
              \/ /\ lookupLog[n].item = lookupLog[m].item
                 /\ lookupLog[n].which = "current"
                 /\ lookupLog[m].which = "past"
    /\ \A n, m \in 1..Len(callLog) :
          n < m =>
              \/ callLog[n].item < callLog[m].item
              \/ /\ callLog[n].item = callLog[m].item
                 /\ ~(callLog[n].which = "past" /\ callLog[m].which = "current")

\* the prior-year search of the second record is under way, after three
\* completed lookups and calls made for the first record
C14_Witness ==
    /\ pricePc = "search"
    /\ item = 2
    /\ lookup.which = "past"
    /\ lookup.i > 0
    /\ Len(lookupLog) = 3
    /\ \E q \in 1..Len(callLog) : callLog[q].item = 1 /\ callLog[q].which = "past"
    /\ \E q \in 1..Len(callLog) : callLog[q].item = 2 /\ callLog[q].which = "past"
\* the quarter label a title stands for: Qn of fiscal year fy is the n-th
\* quarter of the year that ends in March of fy, FY its last quarter
TitleQuarter(title) ==
    CASE title.form = "Q" /\ title.q = 1 -> <<title.fy - 1, "Jun">>
      [] title.form = "Q" /\ title.q = 2 -> <<title.fy - 1, "Sep">>
      [] title.form = "Q" /\ title.q = 3 -> <<title.fy - 1, "Dec">>
      [] title.form = "Q" /\ title.q = 4 -> <<title.fy, "Mar">>
      [] title.form = "FY" -> <<title.fy, "Mar">>
      [] OTHER -> <<title.fy - 1, "Sep">>

\* positions of the non-Projected events of a type whose title maps to a label
Listed(type, label) ==
    {k \in 1..Len(dateEvents) :
        /\ ~dateEvents[k].title.projected
        /\ dateEvents[k].title.type = type
        /\ TitleQuarter(dateEvents[k].title) = label}

FirstListed(type, label) ==
    CHOOSE k \in Listed(type, label) : \A j \in Listed(type, label) : k <= j

RawDateOfEvent(k) ==
    IF "dateTimeRaw" \in DOMAIN dateEvents[k] THEN dateEvents[k].dateTimeRaw ELSE Null

HasQuarter(row) == "Quarter" \in DOMAIN row /\ row.Quarter # Null

\* C15: after date attachment a record with a quarter label carries the raw
\* date of the first-listed non-Projected Earnings Release whose title maps to
\* that label; only when no Release maps to it, the raw date of the
\* first-listed Earnings Call; a later event of the label never replaces it
C15_FirstReleaseElseFirstCall ==
    dpc = "done" =>
        /\ Len(datedOut) = Len(dateRows)
        /\ \A i \in 1..Len(dateRows) :
              HasQuarter(dateRows[i]) =>
                  IF Listed("Release", dateRows[i].Quarter) # {}
                  THEN /\ "dateTimeRaw" \in DOMAIN datedOut[i]
                       /\ datedOut[i].dateTimeRaw =
                              RawDateOfEvent(FirstListed("Release", dateRows[i].Quarter))
                  ELSE Listed("Call", dateRows[i].Quarter) # {} =>
                       /\ "dateTimeRaw" \in DOMAIN datedOut[i]
                       /\ datedOut[i].dateTimeRaw =
                              RawDateOfEvent(FirstListed("Call", dateRows[i].Quarter))

\* a Call listed first, then two Releases of the same quarter with different
\* dates: the record that had another date gets the date of the first Release
C15_Witness ==
    /\ dpc = "done"
    /\ Len(dateEvents) = 3
    /\ dateEvents[1].title.type = "Call"
    /\ Listed("Call", <<2019, "Dec">>) = {1}
    /\ Listed("Release", <<2019, "Dec">>) = {2, 3}
    /\ RawDateOfEvent(2) = Raw20200507
    /\ RawDateOfEvent(3) = RawBadDay
    /\ Get(dateRows[1], "Quarter") = <<2019, "Dec">>
    /\ Get(dateRows[1], "dateTimeRaw") = RawToday
    /\ datedOut[1].dateTimeRaw = Raw20200507

\* C16: after date attachment every record with a Quarter has dateTimeRaw
\* defined, a string or null; a record no event matches keeps the
\* dateTimeRaw it had, and gets null only if it had none; nothing else of a
\* record changes
C16_DateAlwaysDefined ==
    dpc = "done" =>
        /\ Len(datedOut) = Len(dateRows)
        /\ \A i \in 1..Len(dateRows) :
              /\ \A k \in DOMAIN dateRows[i] \ {"dateTimeRaw"} :
                     k \in DOMAIN datedOut[i] /\ datedOut[i][k] = dateRows[i][k]
              /\ HasQuarter(dateRows[i]) =>
                     /\ "dateTimeRaw" \in DOMAIN datedOut[i]
                     /\ datedOut[i].dateTimeRaw \in RawDates
                     /\ (Listed("Release", dateRows[i].Quarter) = {}
                          /\ Listed("Call", dateRows[i].Quarter) = {}) =>
                            datedOut[i].dateTimeRaw =
                                IF "dateTimeRaw" \in DOMAIN dateRows[i]
                                THEN dateRows[i].dateTimeRaw ELSE Null

\* events that match neither record: one record keeps its date, the other,
\* which had none, gets null
C16_Witness ==
    /\ dpc = "done"
    /\ Len(dateRows) = 2
    /\ dateEvents # <<>>
    /\ HasQuarter(dateRows[1]) /\ HasQuarter(dateRows[2])
    /\ Listed("Release", dateRows[1].Quarter) \cup Listed("Call", dateRows[1].Quarter) = {}
    /\ Listed("Release", dateRows[2].Quarter) \cup Listed("Call", dateRows[2].Quarter) = {}
    /\ Get(dateRows[1], "dateTimeRaw") = Raw20210507
    /\ datedOut[1].dateTimeRaw = Raw20210507
    /\ "dateTimeRaw" \notin DOMAIN dateRows[2]
    /\ datedOut[2].dateTimeRaw = Null


----------------------------------------------------------------------------
(* Row extraction and smoothing: properties *)

\* two labels are equal but for the case of their letters
SameLabel(a, b) == Len(a) = Len(b) /\ \A k \in 1..Len(a) : toLowerCase(a[k]) = toLowerCase(b[k])

\* label a has label b inside, the case of the letters aside
HoldsLabel(a, b) ==
    \E p \in 1..(Len(a) - Len(b) + 1) :
        \A k \in 1..Len(b) : toLowerCase(a[p + k - 1]) = toLowerCase(b[k])

\* the candidates of the call that equal some row label, and those some row
\* label holds, as positions in the list
ExactCandidates ==
    {c \in 1..Len(fnCall.labels) :
        \E k \in 1..Len(fnCall.rows) : SameLabel(fnCall.rows[k].label, fnCall.labels[c])}

HeldCandidates ==
    {c \in 1..Len(fnCall.labels) :
        \E k \in 1..Len(fnCall.rows) : HoldsLabel(fnCall.rows[k].label, fnCall.labels[c])}

Lowest(set) == CHOOSE c \in set : \A d \in set : c <= d

\* the first row equal to the candidate, and the first row holding it
FirstRowEqualTo(l) ==
    Lowest({k \in 1..Len(fnCall.rows) : SameLabel(fnCall.rows[k].label, l)})

FirstRowHolding(l) ==
    Lowest({k \in 1..Len(fnCall.rows) : HoldsLabel(fnCall.rows[k].label, l)})

\* C21: label lookup returns the value of the row whose label equals,
\* case-insensitively, the highest-priority candidate that has any exact
\* match; a substring match is used only when no candidate matches any row
\* exactly, and then the highest-priority candidate contained in some row
\* label wins (first such row in row order); the lookup returns 0, never
\* null, when no candidate matches at all.
C21_ExactThenContained ==
    (fpc = "done" /\ fnCall.fn = "getValueByLabels") =>
        /\ fnResult # Null
        /\ IF ExactCandidates # {}
           THEN fnResult =
                    valueOfHit(fnCall.rows[
                        FirstRowEqualTo(fnCall.labels[Lowest(ExactCandidates)])])
           ELSE IF HeldCandidates # {}
           THEN fnResult =
                    valueOfHit(fnCall.rows[
                        FirstRowHolding(fnCall.labels[Lowest(HeldCandidates)])])
           ELSE fnResult = <<0>>

\* "Tax" is inside the first row's "Current tax" and equals no row, "Tax
\* expense" equals the second row: the lookup returns the 1,234.5 of the second
C21_Witness ==
    /\ fpc = "done"
    /\ fnCall.fn = "getValueByLabels"
    /\ fnCall.labels = <<LblTax, LblTaxExpense>>
    /\ Len(fnCall.rows) = 2
    /\ fnCall.rows[1].label = LblCurrentTax
    /\ fnCall.rows[2].label = LblTaxExpense
    /\ ExactCandidates = {2}
    /\ HeldCandidates = {1, 2}
    /\ fnResult = <<2469, 2>>

\* C22: the canonical EPS of a quarter is the value of the Basic-EPS
\* label family whenever any Basic-EPS row is present; the Diluted-EPS family
\* is used only when no Basic-EPS row is present; EPS is 0 when neither family
\* is present.
C22_BasicWheneverPresent ==
    (fpc = "done" /\ fnCall.fn = "eps") =>
        fnResult = IF "EPS_BAS" \in DOMAIN fnCall.rows THEN fnCall.rows["EPS_BAS"]
                   ELSE IF "EPS_DIL" \in DOMAIN fnCall.rows THEN fnCall.rows["EPS_DIL"]
                   ELSE <<0>>

C24_BankEpsNotSmoothed ==
    (fpc = "done" /\ fnCall.fn = "parseStockConsolidatedWithSmooth") =>
        \A i \in 1..Len(fnResult) :
            fnResult[i]["EPS smooth in Rs"] = fnResult[i]["EPS in Rs"]

----------------------------------------------------------------------------
(* End-to-end pipeline: properties *)

StageOrder == <<"growth", "dates", "prices", "scoring">>

StageRank(s) == CHOOSE k \in 1..Len(StageOrder) : StageOrder[k] = s

\* quarters counted from year 0
QuarterIndex(yq) == yq[1] * 4 + yq[2] - 1

FiscalMonths == <<"Mar", "Jun", "Sep", "Dec">>

LabelOfIndex(n) == <<n \div 4, FiscalMonths[(n % 4) + 1]>>

QuartersRequested == QuarterIndex(request.to) - QuarterIndex(request.from) + 1

\* a date or a price has been attached to some record, or a price was asked for
AttachmentBegun ==
    \/ \E i \in 1..Len(outJson) :
           DOMAIN outJson[i] \cap ({"dateTimeRaw"} \cup PriceFieldNames) # {}
    \/ lookupLog # <<>>
    \/ callLog # <<>>
    \/ "dates" \in {stageLog[k] : k \in 1..Len(stageLog)}
    \/ "prices" \in {stageLog[k] : k \in 1..Len(stageLog)}

\* growth is computed for every quarter of the range and is what out carries
FullGrowthSeries ==
    /\ gpc = "done"
    /\ Len(growthOut) = QuartersRequested
    /\ Len(outJson) = QuartersRequested
    /\ \A i \in 1..Len(growthOut) :
          \A k \in DOMAIN growthOut[i] : outJson[i][k] = growthOut[i][k]

\* C7: in a run of the pipeline the stages run in the order growth, dates, prices,
\* scoring (a stage that does not apply is left out); no date or price is attached
\* before growth is computed for the whole range; and scoring starts only when
\* price attachment is not under way: it has ended for every record, or thrown, or
\* was not called.
C7_StagesInOrder ==
    /\ \A i, j \in 1..Len(stageLog) :
           i < j => StageRank(stageLog[i]) < StageRank(stageLog[j])
    /\ stageLog # <<>> => stageLog[1] = "growth"
    /\ AttachmentBegun => FullGrowthSeries
    /\ ppc # "idle" =>
           /\ pricePc \in {"idle", "done", "threw"}
           /\ pricePc = "done" =>
                  /\ item = Len(outJson) + 1
                  /\ \A i \in 1..Len(perfRows) : PriceFieldNames \subseteq DOMAIN perfRows[i]

\* a finished run over two quarters in which all four stages ran and a price was
\* attached
C7_Witness ==
    /\ stage = "done"
    /\ stageLog = StageOrder
    /\ Len(perfOut) = 2
    /\ lookupLog # <<>>
    /\ \E i \in 1..Len(perfOut) :
          /\ perfOut[i].dateTimeRaw # Null
          /\ perfOut[i].currentDateClosePrice # Null

\* the records are those of the quarters from..to, one each, ascending
OnePerQuarter(rows) ==
    /\ Len(rows) = QuartersRequested
    /\ \A k \in 1..Len(rows) :
          rows[k].Quarter = LabelOfIndex(QuarterIndex(request.from) + k - 1)

\* C8: for a range with from <= to, out holds exactly one record per quarter from
\* 'from' to 'to', ascending, from the growth stage on, and so does the output of a
\* finished run, also when the fetch of a quarter failed.
C8_OneRecordPerQuarter ==
    /\ stage \in {"dates", "prices", "pricing", "score", "done", "failed"} =>
           OnePerQuarter(outJson)
    /\ stage = "done" => OnePerQuarter(perfOut)

\* a finished run over a range that crosses a year end in which the fetch of a
\* quarter threw
C8_Witness ==
    /\ stage = "done"
    /\ request.from[1] < request.to[1]
    /\ \E k \in 1..Len(results) : ~results[k].ok /\ results[k].error = "throw"
    /\ \E k \in 1..Len(results) : results[k].ok
    /\ Len(perfOut) = 2

----------------------------------------------------------------------------
(* Bulk runs, retries and the filing observer: properties *)

\* the tasks that have been started and whose worker has not settled yet
InFlight == {i \in DOMAIN poolTask : poolTask[i] = "running"}

\* the task of item i has been executed to its end
Executed(i) == poolTask[i] \in {"recorded", "finished"}

\* C25: in every bulk driver, once a run in which some company's task fails
\* after its retries is over, the run has completed (its promise is resolved,
\* not rejected), every company's task has been executed, and a failure is
\* recorded against exactly the failing companies.
C25_FailureLeavesTheRest ==
    (/\ poolPc = "started"
     /\ poolPromise # "pending"
     /\ \E i \in DOMAIN poolOutcome : poolOutcome[i] = "fail")
    => /\ poolPromise = "resolved"
       /\ \A i \in DOMAIN poolOutcome :
             /\ Executed(i)
             /\ poolResults[i] = "failed" <=> poolOutcome[i] = "fail"

\* C26: at every moment of a bulk run the tasks in flight are at most as many
\* as the concurrency limit, and so is the driver's own count of them, which
\* never falls short of the tasks in flight: a task starts only into a free slot.
C26_InFlightWithinLimit ==
    poolPc = "started" =>
        /\ Cardinality(InFlight) <= poolActive
        /\ poolActive <= poolLimit

\* C26 happens: every slot of a limit of two or more is taken, one more item
\* waits, and one task has already finished and been replaced
C26_Witness ==
    /\ poolPc = "started"
    /\ poolLimit >= 2
    /\ Cardinality(InFlight) = poolLimit
    /\ \E i \in DOMAIN poolTask : poolTask[i] = "waiting"
    /\ \E i \in DOMAIN poolTask : poolTask[i] = "finished"

\* the attempts made so far that failed
FailedAttempts == {k \in 1..Len(retryCalls) : retryOutcome[k] = "fail"}

\* the delays waited so far grow linearly with the attempt number: the delay
\* after attempt k is k times the delay after attempt 1, which is positive
LinearWaits ==
    \A k \in 1..Len(retryWaits) : retryWaits[1] > 0 /\ retryWaits[k] = k * retryWaits[1]

\* C27: a retry-wrapped task is attempted at most retries + 1 times, in order;
\* the wrapper returns the value of the first attempt that succeeds and attempts
\* nothing after it; it waits once after each failed attempt but the last, a
\* delay that grows linearly with the attempt number; and after the last failed
\* attempt it throws the error of that attempt without another wait.
C27_BoundedLinearRetry ==
    retryPc # "idle" =>
        /\ Len(retryCalls) <= retryLimit + 1
        /\ \A k \in 1..Len(retryCalls) : retryCalls[k] = k
        /\ LinearWaits
        /\ Len(retryWaits) <= Len(retryCalls)
        /\ retryPc = "call" => /\ Len(retryWaits) = Len(retryCalls)
                               /\ FailedAttempts = 1..Len(retryCalls)
        /\ retryPc = "returned" =>
              /\ retryOutcome[Len(retryCalls)] = "ok"
              /\ FailedAttempts = 1..(Len(retryCalls) - 1)
              /\ retryResult = [value |-> Len(retryCalls)]
              /\ Len(retryWaits) = Len(retryCalls) - 1
        /\ retryPc = "threw" =>
              /\ Len(retryCalls) = retryLimit + 1
              /\ FailedAttempts = 1..(retryLimit + 1)
              /\ retryResult = [error |-> retryLimit + 1]
              /\ Len(retryWaits) = retryLimit

\* C27 happens: with the default of 2 retries all 3 attempts fail and the
\* wrapper throws after 2 waits
C27_Witness ==
    /\ retryPc = "threw"
    /\ retryLimit = 2
    /\ Len(retryCalls) = 3
    /\ Len(retryWaits) = 2

\* C28: the promise of the bulk evaluation pool is resolved only when every
\* item has its result, and it is resolved once every item's worker has settled
\* and its handlers have run, for the empty item list too.
C28_ResolvedExactlyWhenSettled ==
    (poolPc = "started" /\ poolDriver = "runPool")
    => /\ poolPromise = "resolved" => allRecorded(poolResults)
       /\ (\A i \in DOMAIN poolTask : poolTask[i] = "finished")
             => poolPromise = "resolved"

\* C29: across the polling cycles of the filing observer each distinct filing
\* key is handed to onNew at most once, overlapping cycles included.
C29_HandedAtMostOnce == \A k \in DOMAIN handed : handed[k] <= 1

\* the search bound getCachedNearestClose was called with for lookupLog[n]
BoundOf(n) == IF lookupLog[n].which = "current" THEN CurrentBackDays ELSE PastYearBackDays

\* C30: every cached nearest-close lookup made so far returned the close that an
\* uncached backward search from its date with its own bound returns, whatever
\* lookups were made before it.
C30_CachedAsUncached ==
    \A n \in 1..Len(lookupLog) :
        lookupLog[n].close =
            getNearestClose(market, lookupLog[n].isoDate, BoundOf(n)).close

====
